---- MODULE Spec2Model ----
(***************************************************************************)
(* A model of shed's configuration store (shed/settings.py), its target    *)
(* resolver (shed/custom_types.py), the init workflow (shed/cli.py,        *)
(* shed/core.py), and the migration orchestrator (shed/core.py) with the   *)
(* bootstrap script the engine runs (shed/templates/env.py).               *)
(*                                                                         *)
(* Strings that the code takes apart (target strings, environment names,   *)
(* path strings) are sequences of one-character strings; a pathlib.Path is *)
(* a record [abs, parts]; the YAML document on disk holds path STRINGS, so *)
(* that serialising and parsing are real conversions.                      *)
(***************************************************************************)
EXTENDS Integers, Sequences, FiniteSets, TLC

VARIABLES
    settings,   \* the in-memory Settings instance of the process
    file,       \* the settings file on disk: [exists, data]
    fs,         \* the paths (directories and files) init has created
    op,         \* the last operation: its name, arguments, outcome, result
    steps,      \* number of operations performed so far
    run         \* the orchestrated operation in progress: its position and
                \* what it has built, launched and returned

vars == <<settings, file, fs, op, steps, run>>

(***************************************************************************)
(* Bounds of the model.                                                    *)
(***************************************************************************)
MaxOps == 3

(***************************************************************************)
(* Strings as sequences of characters.                                     *)
(***************************************************************************)
EmptyMap == [x \in {} |-> {}]

\* str.lower() on the characters the model uses
Lower(c) ==
    CASE c = "D" -> "d"
      [] c = "E" -> "e"
      [] c = "V" -> "v"
      [] OTHER -> c

LowerStr(s) == [i \in 1..Len(s) |-> Lower(s[i])]

StartsWith(s, pre) ==
    /\ Len(s) >= Len(pre)
    /\ SubSeq(s, 1, Len(pre)) = pre

EndsWith(s, suf) ==
    /\ Len(s) >= Len(suf)
    /\ SubSeq(s, Len(s) - Len(suf) + 1, Len(s)) = suf

\* str.split(sep) for a one-character separator: "a." gives <<"a", "">>
RECURSIVE Split(_, _)
Split(s, sep) ==
    IF \A i \in 1..Len(s) : s[i] # sep
    THEN <<s>>
    ELSE LET k == CHOOSE i \in 1..Len(s) :
                     /\ s[i] = sep
                     /\ \A j \in 1..(i - 1) : s[j] # sep
         IN  <<SubSeq(s, 1, k - 1)>> \o Split(SubSeq(s, k + 1, Len(s)), sep)

\* sep.join(parts)
RECURSIVE Join(_, _)
Join(parts, sep) ==
    IF Len(parts) = 0 THEN <<>>
    ELSE IF Len(parts) = 1 THEN parts[1]
    ELSE parts[1] \o <<sep>> \o Join(Tail(parts), sep)

RECURSIVE SelectSeqNonEmpty(_)
SelectSeqNonEmpty(parts) ==
    IF Len(parts) = 0 THEN <<>>
    ELSE IF parts[1] = <<>> \/ parts[1] = <<".">>
         THEN SelectSeqNonEmpty(Tail(parts))
         ELSE <<parts[1]>> \o SelectSeqNonEmpty(Tail(parts))

(***************************************************************************)
(* pathlib.Path: [abs |-> BOOLEAN, parts |-> sequence of components].      *)
(***************************************************************************)
Path(abs, parts) == [abs |-> abs, parts |-> parts]

\* Path(str): a leading "/" makes it absolute; empty and "." components drop
StrToPath(s) ==
    Path(Len(s) > 0 /\ s[1] = "/", SelectSeqNonEmpty(Split(s, "/")))

\* str(path): "." for the empty relative path
PathToStr(p) ==
    IF p.abs THEN <<"/">> \o Join(p.parts, "/")
    ELSE IF Len(p.parts) = 0 THEN <<".">>
    ELSE Join(p.parts, "/")

\* root / value
PathJoin(root, value) ==
    IF value.abs THEN value ELSE Path(root.abs, root.parts \o value.parts)

\* path.parent
PathParent(p) ==
    IF Len(p.parts) = 0 THEN p
    ELSE Path(p.abs, SubSeq(p.parts, 1, Len(p.parts) - 1))

\* value.relative_to(root) succeeds (does not raise ValueError)
IsRelativeTo(root, value) ==
    /\ value.abs = root.abs
    /\ Len(value.parts) >= Len(root.parts)
    /\ SubSeq(value.parts, 1, Len(root.parts)) = root.parts

convert_abs(root, value) ==
    IF value.abs THEN value ELSE PathJoin(root, value)

\* defined where IsRelativeTo(root, value); elsewhere the code raises
convert_rel(root, value) ==
    Path(FALSE, SubSeq(value.parts, Len(root.parts) + 1, Len(value.parts)))

path_convert(root, value, mode) ==
    IF mode = "abs" THEN convert_abs(root, value) ELSE convert_rel(root, value)

\* path_convert(root, value, mode) raises
path_convert_raises(root, value, mode) ==
    mode = "rel" /\ ~IsRelativeTo(root, value)

(***************************************************************************)
(* The data model of shed/settings.py.                                     *)
(*   connection      [kind |-> "sqlite", db_path] or                       *)
(*                   [kind |-> "postgres", host, port, username,           *)
(*                    database, password]   (kind is the Python class)     *)
(*   DatabaseConfig  [type, connection]                                    *)
(*   ProjectConfig   [module, db]                                          *)
(*   Settings        [development, projects, settings_path]; the nullable  *)
(*                   settings_path is <<>> (None) or <<path>>              *)
(***************************************************************************)
SqliteConnection(db_path) == [kind |-> "sqlite", db_path |-> db_path]

PostgresConnection(host, port, username, database, password) ==
    [kind |-> "postgres", host |-> host, port |-> port, username |-> username,
     database |-> database, password |-> password]

\* A network connection with the optional schema_name set.  The field is not
\* among the source files (core.py:224 reads it); it is written from the
\* specification, section 3.
PostgresSchemaConnection(conn, name) ==
    [kind |-> "postgres", host |-> conn.host, port |-> conn.port,
     username |-> conn.username, database |-> conn.database,
     password |-> conn.password, schema_name |-> <<name>>]

\* the field defaults of PostgresConnection
PgDefaults ==
    [host |-> "127.0.0.1", port |-> 5432, username |-> "postgres",
     database |-> <<"p", "o", "s", "t", "g", "r", "e", "s">>,
     password |-> "postgres"]

DatabaseConfig(type, connection) == [type |-> type, connection |-> connection]

ProjectConfig(module, db) == [module |-> module, db |-> db]

DevelopmentConfig == [db |-> EmptyMap]

Settings(projects, settings_path) ==
    [development |-> DevelopmentConfig, projects |-> projects,
     settings_path |-> settings_path]

\* PostgresConnection.validate_db_name accepts v
validate_db_name(v) == \A i \in 1..Len(v) : v[i] # " "

\* DatabaseConfig.db_name
db_name(cfg) ==
    IF cfg.connection.kind = "postgres" /\ cfg.connection.database # <<>>
    THEN cfg.connection.database
    ELSE PathToStr(cfg.connection.db_path)

\* ProjectConfig.migrations_dir and ProjectConfig.versions_dir
migrations_dir(project) ==
    PathJoin(PathParent(project.module), Path(FALSE, <<<<"migrations">>>>))

versions_dir(project) ==
    PathJoin(migrations_dir(project), Path(FALSE, <<<<"versions">>>>))

(***************************************************************************)
(* SettingsRelPaths._convert_paths and its overrides: every field of type  *)
(* Path is converted; the second operator of each pair tells whether the   *)
(* conversion raises (convert_rel's ValueError).                           *)
(***************************************************************************)
ConnConvertPaths(conn, root, mode) ==
    IF conn.kind = "sqlite"
    THEN [conn EXCEPT !.db_path = path_convert(root, conn.db_path, mode)]
    ELSE conn

ConnConvertRaises(conn, root, mode) ==
    conn.kind = "sqlite" /\ path_convert_raises(root, conn.db_path, mode)

DbMapConvertPaths(db, root, mode) ==
    [e \in DOMAIN db |->
        [db[e] EXCEPT !.connection = ConnConvertPaths(db[e].connection, root, mode)]]

DbMapConvertRaises(db, root, mode) ==
    \E e \in DOMAIN db : ConnConvertRaises(db[e].connection, root, mode)

ProjectConvertPaths(proj, root, mode) ==
    [module |-> path_convert(root, proj.module, mode),
     db |-> DbMapConvertPaths(proj.db, root, mode)]

ProjectConvertRaises(proj, root, mode) ==
    \/ path_convert_raises(root, proj.module, mode)
    \/ DbMapConvertRaises(proj.db, root, mode)

\* Settings._convert_paths; root = settings_path.parent.absolute()
SettingsRoot(s) == PathParent(s.settings_path[1])

SettingsConvertPaths(s, mode) ==
    [s EXCEPT
        !.projects = [n \in DOMAIN s.projects |->
                        ProjectConvertPaths(s.projects[n], SettingsRoot(s), mode)],
        !.development = [db |-> DbMapConvertPaths(s.development.db,
                                                  SettingsRoot(s), mode)]]

SettingsConvertRaises(s, mode) ==
    \/ \E n \in DOMAIN s.projects :
           ProjectConvertRaises(s.projects[n], SettingsRoot(s), mode)
    \/ DbMapConvertRaises(s.development.db, SettingsRoot(s), mode)

(***************************************************************************)
(* Serialisation: model_dump(mode="json") turns every Path into a string   *)
(* and drops settings_path; the connection's class is not written.         *)
(***************************************************************************)
DumpConn(conn) ==
    IF conn.kind = "sqlite"
    THEN [db_path |-> PathToStr(conn.db_path)]
    ELSE IF "schema_name" \in DOMAIN conn
    THEN [host |-> conn.host, port |-> conn.port, username |-> conn.username,
          database |-> conn.database, password |-> conn.password,
          schema_name |-> conn.schema_name[1]]
    ELSE [host |-> conn.host, port |-> conn.port, username |-> conn.username,
          database |-> conn.database, password |-> conn.password]

DumpDbMap(db) ==
    [e \in DOMAIN db |->
        [type |-> db[e].type, connection |-> DumpConn(db[e].connection)]]

DumpProject(proj) ==
    [module |-> PathToStr(proj.module), db |-> DumpDbMap(proj.db)]

\* the default (handler) serialisation of a Settings, settings_path excluded
DumpSettings(s) ==
    [development |-> [db |-> DumpDbMap(s.development.db)],
     projects |-> [n \in DOMAIN s.projects |-> DumpProject(s.projects[n])]]

\* Settings.serialize_model raises
serialize_model_raises(s) ==
    s.settings_path # <<>> /\ SettingsConvertRaises(s, "rel")

\* serialize_model as it would be with the conversion to relative paths
\* left out
serialize_model_no_rel(s) == DumpSettings(s)

\* Settings.serialize_model: with a settings path, a deep copy is converted to
\* relative paths and the copy is serialised
serialize_model(s) ==
    IF s.settings_path = <<>> THEN DumpSettings(s)
    ELSE DumpSettings(SettingsConvertPaths(s, "rel"))

(***************************************************************************)
(* Validation: the Settings constructor applied to the document.                        *)
(***************************************************************************)
FieldOr(d, name, default) == IF name \in DOMAIN d THEN d[name] ELSE default

\* the union SqliteConnection | PostgresConnection: a mapping with db_path is
\* a SqliteConnection, any other a PostgresConnection with defaults filled in
ParseConn(d) ==
    IF "db_path" \in DOMAIN d
    THEN SqliteConnection(StrToPath(d.db_path))
    ELSE LET conn == PostgresConnection(FieldOr(d, "host", PgDefaults.host),
                                        FieldOr(d, "port", PgDefaults.port),
                                        FieldOr(d, "username", PgDefaults.username),
                                        FieldOr(d, "database", PgDefaults.database),
                                        FieldOr(d, "password", PgDefaults.password))
         IN  IF "schema_name" \in DOMAIN d
             THEN PostgresSchemaConnection(conn, d.schema_name)
             ELSE conn

ValidConn(d) ==
    "db_path" \in DOMAIN d \/ validate_db_name(FieldOr(d, "database", PgDefaults.database))

ValidDbMap(db) ==
    \A e \in DOMAIN db :
        /\ db[e].type \in {"sqlite", "postgres"}
        /\ ValidConn(db[e].connection)

ParseDbMap(db) ==
    [e \in DOMAIN db |-> DatabaseConfig(db[e].type, ParseConn(db[e].connection))]

\* the pydantic validation of the document succeeds
ValidData(data) ==
    /\ ValidDbMap(data.development.db)
    /\ \A n \in DOMAIN data.projects : ValidDbMap(data.projects[n].db)

\* field validation, before the model validator runs
ParseFields(data, settings_path) ==
    [development |-> [db |-> ParseDbMap(data.development.db)],
     projects |-> [n \in DOMAIN data.projects |->
                     ProjectConfig(StrToPath(data.projects[n].module),
                                   ParseDbMap(data.projects[n].db))],
     settings_path |-> settings_path]

\* Settings.validate_paths (model_validator, mode="after")
validate_paths(s) ==
    IF s.settings_path # <<>> THEN SettingsConvertPaths(s, "abs") ELSE s

\* the Settings constructor on a document with ValidData(data)
ParseSettings(data, settings_path) ==
    validate_paths(ParseFields(data, settings_path))

(***************************************************************************)
(* The operations of Settings.  Each returns a record: what it raised      *)
(* ("none" when it returned normally) and the objects it may have changed. *)
(***************************************************************************)

\* add_project as it would be without the "not in self.projects" test
add_project_overwrite(s, project_name, code_path) ==
    IF ~code_path.abs
    THEN [raised |-> "ValueError", settings |-> s, ret |-> {}]
    ELSE LET s2 == [s EXCEPT !.projects =
                        [n \in DOMAIN s.projects \cup {project_name} |->
                            IF n = project_name
                            THEN ProjectConfig(code_path, EmptyMap)
                            ELSE s.projects[n]]]
         IN  [raised |-> "none", settings |-> s2,
              ret |-> {s2.projects[project_name]}]

\* Settings.add_project(project_name, code_path); ret is the returned entry
add_project(s, project_name, code_path) ==
    IF ~code_path.abs
    THEN [raised |-> "ValueError", settings |-> s, ret |-> {}]
    ELSE LET s2 == IF project_name \notin DOMAIN s.projects
                   THEN [s EXCEPT !.projects =
                            [n \in DOMAIN s.projects \cup {project_name} |->
                                IF n = project_name
                                THEN ProjectConfig(code_path, EmptyMap)
                                ELSE s.projects[n]]]
                   ELSE s
         IN  [raised |-> "none", settings |-> s2,
              ret |-> {s2.projects[project_name]}]

\* save as it would be if serialize_model converted self instead of a copy
save_in_place(s, f) ==
    IF s.settings_path = <<>>
    THEN [raised |-> "AttributeError", file |-> f, settings |-> s]
    ELSE IF serialize_model_raises(s)
    THEN [raised |-> "SerializationError", file |-> f, settings |-> s]
    ELSE LET data_dump == serialize_model(s)
         IN  IF ~ValidData(data_dump)
             THEN [raised |-> "ValidationError", file |-> f, settings |-> s]
             ELSE [raised |-> "none",
                   settings |-> SettingsConvertPaths(s, "rel"),
                   file |-> [exists |-> TRUE, data |-> data_dump]]

\* save as it would be if the file were opened for writing before the
\* serialisation: a failing save leaves an empty file behind
save_open_first(s, f) ==
    LET truncated == [exists |-> TRUE,
                      data |-> [development |-> [db |-> EmptyMap],
                                projects |-> EmptyMap]]
    IN  IF s.settings_path = <<>>
        THEN [raised |-> "AttributeError", file |-> f, settings |-> s]
        ELSE IF serialize_model_raises(s)
        THEN [raised |-> "SerializationError", file |-> truncated, settings |-> s]
        ELSE LET data_dump == serialize_model(s)
             IN  IF ~ValidData(data_dump)
                 THEN [raised |-> "ValidationError", file |-> truncated,
                       settings |-> s]
                 ELSE [raised |-> "none", settings |-> s,
                       file |-> [exists |-> TRUE, data |-> data_dump]]

\* Settings.save(): serialise (which converts a deep copy to relative paths),
\* re-validate the serialised form, then write the file.  The settings
\* directory exists in every state of the model, so mkdir changes nothing.
\* A Settings without a path calls _get_settings_path, which is not defined.
\* settings is the instance after the call.
save(s, f) ==
    IF s.settings_path = <<>>
    THEN [raised |-> "AttributeError", file |-> f, settings |-> s]
    ELSE IF serialize_model_raises(s)
    THEN [raised |-> "SerializationError", file |-> f, settings |-> s]
    ELSE LET data_dump == serialize_model(s)
         IN  IF ~ValidData(data_dump)
             THEN [raised |-> "ValidationError", file |-> f, settings |-> s]
             ELSE [raised |-> "none", settings |-> s,
                   file |-> [exists |-> TRUE, data |-> data_dump]]

\* from_file as it would be without the save() of the default settings
from_file_no_save(settings_path, f) ==
    IF ~f.exists
    THEN [raised |-> "none", file |-> f,
          ret |-> {[development |-> [db |-> EmptyMap], projects |-> EmptyMap,
                    settings_path |-> <<settings_path>>]}]
    ELSE IF ~ValidData(f.data)
    THEN [raised |-> "ValidationError", file |-> f, ret |-> {}]
    ELSE [raised |-> "none", file |-> f,
          ret |-> {ParseSettings(f.data, <<settings_path>>)}]

\* Settings.from_file(settings_path); ret holds the returned instance
from_file(settings_path, f) ==
    IF ~f.exists
    THEN LET s == validate_paths(Settings(EmptyMap, <<settings_path>>))
             w == save(s, f)
         IN  [raised |-> w.raised, file |-> w.file,
              ret |-> IF w.raised = "none" THEN {w.settings} ELSE {}]
    ELSE IF ~ValidData(f.data)
    THEN [raised |-> "ValidationError", file |-> f, ret |-> {}]
    ELSE [raised |-> "none", file |-> f,
          ret |-> {ParseSettings(f.data, <<settings_path>>)}]

(***************************************************************************)
(* Settings.get_dev_db(project_name): the development database of a        *)
(* project, {} for "not found".  Its definition is not among the source    *)
(* files (its callers are custom_types.py:95 and cli.py:176), so it is     *)
(* written from the specification, section 4.2.                            *)
(***************************************************************************)
Dev == <<"d", "e", "v">>

IsDevName(name) ==
    StartsWith(LowerStr(name), Dev) \/ EndsWith(LowerStr(name), Dev)

\* get_dev_db as it would be if the dev*/*dev candidates were tried first
get_dev_db_candidates_first(s, project_name) ==
    LET db == s.projects[project_name].db
        candidates == {e \in DOMAIN db : IsDevName(e)}
    IN  IF Cardinality(candidates) = 1 THEN {db[e] : e \in candidates}
        ELSE IF project_name \in DOMAIN db THEN {db[project_name]}
        ELSE {}

\* get_dev_db as it would be with a case-sensitive comparison
get_dev_db_case_sensitive(s, project_name) ==
    LET db == s.projects[project_name].db
        candidates == {e \in DOMAIN db : StartsWith(e, Dev) \/ EndsWith(e, Dev)}
    IN  IF project_name \in DOMAIN db THEN {db[project_name]}
        ELSE IF Cardinality(candidates) = 1
             THEN {db[e] : e \in candidates}
             ELSE {}

get_dev_db(s, project_name) ==
    LET db == s.projects[project_name].db
        candidates == {e \in DOMAIN db : IsDevName(e)}
    IN  IF project_name \in DOMAIN db THEN {db[project_name]}
        ELSE IF Cardinality(candidates) = 1
             THEN {db[e] : e \in candidates}
             ELSE {}

(***************************************************************************)
(* parse_project_string(settings, value) of shed/custom_types.py.          *)
(* error names the typer.BadParameter raised ("none": a ProjectEnvironment *)
(* is returned, in ret); settings is the Settings object after the call.   *)
(* environment_name is <<>> for None and <<name>> for a string.            *)
(***************************************************************************)
ProjectEnvironment(project_name, project_config, db_config, environment_name) ==
    [project_name |-> project_name, project_config |-> project_config,
     db_config |-> db_config, environment_name |-> environment_name]

ResolveError(kind, s) == [error |-> kind, ret |-> {}, settings |-> s]

\* parse_project_string as it would be if the project lookup created the
\* missing entry (a setdefault in place of the membership test)
parse_project_string_setdefault(s, value) ==
    LET tokens == Split(value, ".")
    IN  IF Len(tokens) > 2 THEN ResolveError("InvalidTargetFormat", s)
        ELSE IF tokens[1] \notin DOMAIN s.projects
        THEN ResolveError("UnknownProject",
                 [s EXCEPT !.projects =
                     [n \in DOMAIN s.projects \cup {tokens[1]} |->
                         IF n = tokens[1]
                         THEN ProjectConfig(Path(FALSE, <<>>), EmptyMap)
                         ELSE s.projects[n]]])
        ELSE ResolveError("UnknownEnvironment", s)

parse_project_string(s, value) ==
    LET tokens == Split(value, ".")
    IN  IF Len(tokens) > 2 THEN ResolveError("InvalidTargetFormat", s)
        ELSE
        LET project_name == tokens[1]
            env_name == IF Len(tokens) = 2 THEN <<tokens[2]>> ELSE <<>>
            \* "if env_name:" is false for None and for the empty string
            truthy == env_name # <<>> /\ env_name[1] # <<>>
        IN  IF project_name \notin DOMAIN s.projects
            THEN ResolveError("UnknownProject", s)
            ELSE
            LET project_config == s.projects[project_name]
            IN  IF truthy
                THEN IF env_name[1] \notin DOMAIN project_config.db
                     THEN ResolveError("UnknownEnvironment", s)
                     ELSE [error |-> "none", settings |-> s,
                           ret |-> {ProjectEnvironment(project_name, project_config,
                                        project_config.db[env_name[1]], env_name)}]
                ELSE LET dev_db == get_dev_db(s, project_name)
                     IN  IF dev_db = {}
                         THEN ResolveError("NoDevDatabase", s)
                         ELSE [error |-> "none", settings |-> s,
                               ret |-> {ProjectEnvironment(project_name,
                                            project_config, d, env_name) :
                                        d \in dev_db}]

(***************************************************************************)
(* The init command: cli.init, which makes the connection's path absolute, *)
(* and core.init_project.  The process runs in the settings directory, and *)
(* the model has no symbolic links, so resolve() joins a relative path to  *)
(* the working directory.                                                  *)
(*   connection, output: {} / <<>> when the option is not given            *)
(*   exit: the exit code of the command (1 also for an uncaught exception) *)
(***************************************************************************)
RootDir == Path(TRUE, <<<<"r">>>>)
SettingsPath == PathJoin(RootDir, Path(FALSE, <<<<"s.yaml">>>>))
OutsideDir == Path(TRUE, <<<<"o">>>>)
Cwd == RootDir

resolve(p) == PathJoin(Cwd, p)

\* the development database as it would be if it were always a network one
DevDatabaseConfig_network(s_p, project_name, dev_db_type) ==
    DatabaseConfig("postgres",
        PostgresConnection(PgDefaults.host, PgDefaults.port,
            PgDefaults.username, project_name, PgDefaults.password))

\* core.py builds DatabaseConfig from the connection alone; its type tag is
\* the connection's variant
DevDatabaseConfig(s_p, project_name, dev_db_type) ==
    IF dev_db_type = "sqlite"
    THEN DatabaseConfig("sqlite",
             SqliteConnection(PathJoin(s_p,
                 Path(FALSE, <<project_name \o <<".sqlite">>>>))))
    ELSE DatabaseConfig("postgres",
             PostgresConnection(PgDefaults.host, PgDefaults.port,
                 PgDefaults.username, project_name, PgDefaults.password))

SetEnv(s, project_name, env_name, cfg) ==
    [s EXCEPT !.projects[project_name].db =
        [e \in DOMAIN s.projects[project_name].db \cup {env_name} |->
            IF e = env_name THEN cfg ELSE s.projects[project_name].db[e]]]

InitOutcome(raised, success, config_created, s, f, dirs) ==
    [raised |-> raised, success |-> success, config_created |-> config_created,
     settings |-> s, file |-> f, fs |-> dirs]

init_project(s, f, dirs, project_name, force, output_dir, db_config, env_name, dev_db_type) ==
    LET s_p == resolve(PathParent(s.settings_path[1]))
        out == IF output_dir = <<>> THEN s_p ELSE output_dir[1]
        project_dir == resolve(PathJoin(out, Path(FALSE, <<project_name>>)))
    IN  IF ~IsRelativeTo(s_p, project_dir)
        THEN InitOutcome("Exit", FALSE, FALSE, s, f, dirs)
        ELSE
        LET models_path == PathJoin(project_dir, Path(FALSE, <<<<"models.py">>>>))
            config_created == project_name \notin DOMAIN s.projects
            s1 == add_project(s, project_name, models_path).settings
            s2 == IF db_config # {}
                  THEN SetEnv(s1, project_name, env_name,
                              CHOOSE c \in db_config : TRUE)
                  ELSE s1
        IN  IF dev_db_type = "postgres" /\ ~validate_db_name(project_name)
            THEN InitOutcome("ValueError", FALSE, config_created, s2, f, dirs)
            ELSE
            LET s3 == SetEnv(s2, project_name, project_name,
                             DevDatabaseConfig(s_p, project_name, dev_db_type))
                w == save(s3, f)
                mig == PathJoin(project_dir, Path(FALSE, <<<<"migrations">>>>))
                ver == PathJoin(mig, Path(FALSE, <<<<"versions">>>>))
            IN  IF w.raised # "none"
                THEN InitOutcome(w.raised, FALSE, config_created, w.settings,
                                 w.file, dirs)
                ELSE IF mig \in dirs /\ ~force
                THEN InitOutcome("none", FALSE, config_created, w.settings,
                                 w.file, dirs)
                ELSE InitOutcome("none", TRUE, config_created, w.settings, w.file,
                                 dirs \cup {project_dir, mig, ver, models_path})

\* cli.init
cli_init(s, f, dirs, project_name, env, connection, force, output, dev_db_type) ==
    LET conn == {[c EXCEPT !.connection =
                     ConnConvertPaths(c.connection,
                                      PathParent(s.settings_path[1]), "abs")] :
                 c \in connection}
        r == init_project(s, f, dirs, project_name, force, output, conn, env,
                          dev_db_type)
    IN  [result |-> r, exit |-> IF r.raised = "none" /\ r.success THEN 0 ELSE 1]

(***************************************************************************)
(* What the orchestrator reads from a connection.  A text (DSN, message,   *)
(* captured output) is a sequence of tokens, f-strings concatenate.        *)
(***************************************************************************)

\* connection.type, the tag of the connection's variant
connection_type(conn) == conn.kind

\* urllib.parse.quote_plus on the passwords of the model (letters, digits
\* and "_.-~" are kept, " " becomes "+", any other character is %-encoded)
quote_plus(s) ==
    CASE s = "p@ss w" -> "p%40ss+w"
      [] OTHER -> s

\* SqliteConnection.get_dsn and PostgresConnection.get_dsn
get_dsn(conn) ==
    IF conn.kind = "sqlite"
    THEN <<"sqlite:///">> \o PathToStr(conn.db_path)
    ELSE <<"postgresql://", conn.username, ":", quote_plus(conn.password), "@",
           conn.host, ":", ToString(conn.port), "/">> \o conn.database

\* connection.schema_name: <<>> for None; a file connection has none
schema_name(conn) ==
    IF conn.kind = "postgres" /\ "schema_name" \in DOMAIN conn
    THEN conn.schema_name
    ELSE <<>>

(***************************************************************************)
(* The clone command: validation.validate_matching_db_types,               *)
(* core.clone_database (a stub that touches no database) and cli.clone.    *)
(***************************************************************************)

\* exit is {} when the function returns, {1} for typer.Exit(1)
validate_matching_db_types(src_db, tgt_db) ==
    LET src_type == connection_type(src_db.connection)
        tgt_type == connection_type(tgt_db.connection)
    IN  IF src_type # tgt_type
        THEN [exit |-> {1},
              stderr |-> <<"Error: Database types must match (source: ",
                           src_type, ", target: ", tgt_type, ")">>]
        ELSE [exit |-> {}, stderr |-> <<>>]

clone_database(src_db_config, tgt_db_config, dry_run) ==
    [success |-> TRUE,
     message |-> <<IF dry_run THEN "[DRY RUN] Would clone" ELSE "Cloned", " ">>
                 \o db_name(src_db_config) \o <<" to ">> \o db_name(tgt_db_config)
                 \o <<" (", connection_type(src_db_config.connection), ")">>]

CloneOutcome(exit, stderr, stdout, clone_calls) ==
    [exit |-> exit, stderr |-> stderr, stdout |-> stdout,
     clone_calls |-> clone_calls]

\* cli.clone as it would be without the call of validate_matching_db_types
cli_clone_unvalidated(s, src, target, dry_run) ==
    LET target_db_cfg == IF target = {} THEN get_dev_db(s, src.project_name)
                         ELSE {t.db_config : t \in target}
    IN  IF target_db_cfg = {}
        THEN CloneOutcome(1, <<"Error: Could not determine development database">>,
                          <<>>, 0)
        ELSE LET tgt == CHOOSE d \in target_db_cfg : TRUE
             IN  CloneOutcome(0, <<>>,
                              clone_database(src.db_config, tgt, dry_run).message, 1)

\* cli.clone(src, target, dry_run) on resolved targets; target is {} when the
\* argument is not given.  clone_calls counts the calls of clone_database.
cli_clone(s, src, target, dry_run) ==
    LET target_db_cfg == IF target = {} THEN get_dev_db(s, src.project_name)
                         ELSE {t.db_config : t \in target}
    IN  IF target_db_cfg = {}
        THEN CloneOutcome(1, <<"Error: Could not determine development database">>,
                          <<>>, 0)
        ELSE LET tgt == CHOOSE d \in target_db_cfg : TRUE
                 v == validate_matching_db_types(src.db_config, tgt)
             IN  IF v.exit # {}
                 THEN CloneOutcome(1, v.stderr, <<>>, 0)
                 ELSE CloneOutcome(0, <<>>,
                          clone_database(src.db_config, tgt, dry_run).message, 1)

(***************************************************************************)
(* The bootstrap script shed/templates/env.py, which the engine runs in    *)
(* the child process.  It is modelled by the events it causes, in order:   *)
(* Event(ev, arg) with ev one of engine_from_config, connect, execute,     *)
(* commit, default_schema_name, configure, begin_transaction, generate (an *)
(* operation written to the revision file), emit (a statement printed in   *)
(* offline mode).  The engine is an external collaborator: what is known   *)
(* of it is that autogenerate considers the tables of the metadata that    *)
(* include_object admits, and that upgrade runs the revision files.        *)
(***************************************************************************)
Event(ev, arg) == [ev |-> ev, arg |-> arg]

\* SQLModel.metadata of the project: a table without and one with an
\* explicit schema (tests/fixtures/projects/pg_schemas/models.py)
target_metadata ==
    <<[name |-> "user", schema |-> <<>>],
      [name |-> "flight", schema |-> <<"aviation">>]>>

\* config.get_main_option("sqlalchemy.url"): the URL of the alembic.ini the
\* engine was started with; the engine's own template has this placeholder
sqlalchemy_url == <<"driver://">>

\* get_dsn_from_env(): {} when it raises ValueError
get_dsn_from_env(environ) ==
    IF "SHED_CURRENT_DSN" \in DOMAIN environ /\ environ["SHED_CURRENT_DSN"] # <<>>
    THEN {environ["SHED_CURRENT_DSN"]}
    ELSE {}

\* the characters of the class [a-z_]
TenantChars ==
    {"a", "b", "c", "d", "e", "f", "g", "h", "i", "j", "k", "l", "m", "n", "o",
     "p", "q", "r", "s", "t", "u", "v", "w", "x", "y", "z", "_"}

\* re.match(r"^[a-z_]+$", schema): {} for no match, else the matched text.
\* "$" matches at the end of the string and also just before a newline that
\* ends the string.
re_match(schema) ==
    LET body == IF Len(schema) > 0 /\ schema[Len(schema)] = "\n"
                THEN SubSeq(schema, 1, Len(schema) - 1)
                ELSE schema
    IN  IF Len(body) > 0 /\ \A i \in 1..Len(body) : body[i] \in TenantChars
        THEN {body}
        ELSE {}

\* get_tenant as it would be if the name were used without the pattern test
get_tenant_unchecked(environ) ==
    [raised |-> "none", ret |-> FieldOr(environ, "SHED_CURRENT_SCHEMA", <<>>)]

\* get_tenant()
get_tenant(environ) ==
    LET schema == FieldOr(environ, "SHED_CURRENT_SCHEMA", <<>>)
    IN  IF schema # <<>>
        THEN IF re_match(schema) = {}
             THEN [raised |-> "ValueError", ret |-> <<>>]
             ELSE [raised |-> "none", ret |-> CHOOSE m \in re_match(schema) : TRUE]
        ELSE [raised |-> "none", ret |-> schema]

\* connection.dialect.name, which the engine takes from the URL
dialect_name(url) ==
    IF url # <<>> /\ url[1] = "sqlite:///" THEN "sqlite"
    ELSE IF url # <<>> /\ url[1] = "postgresql://" THEN "postgresql"
    ELSE "other"

RECURSIVE Flatten(_)
Flatten(seqs) == IF Len(seqs) = 0 THEN <<>> ELSE seqs[1] \o Flatten(Tail(seqs))

\* the tables autogenerate considers; env.py passes no include_object to
\* context.configure, so every table of the metadata is in scope
autogenerate_scope(metadata, dialect) == metadata

\* context.run_migrations(): for "revision" the operations generated for the
\* tables in scope; for "upgrade" the statements of the revision files,
\* executed (online) or printed (offline).  A file database cannot create a
\* table in a schema: the statement fails.
run_migrations(command, offline, dialect, revisions) ==
    IF command = "revision"
    THEN LET scope == autogenerate_scope(target_metadata, dialect)
         IN  [raised |-> "none", generated |-> {scope},
              trace |-> [i \in 1..Len(scope) |->
                            Event("generate", <<"create_table", scope[i].name>>
                                              \o scope[i].schema)]]
    ELSE LET tables == Flatten(revisions)
             stmts == [i \in 1..Len(tables) |->
                          Event(IF offline THEN "emit" ELSE "execute",
                                <<"CREATE TABLE", tables[i].name>> \o tables[i].schema)]
             failing == {i \in 1..Len(tables) :
                            ~offline /\ dialect = "sqlite" /\ tables[i].schema # <<>>}
         IN  IF failing = {}
             THEN [raised |-> "none", generated |-> {}, trace |-> stmts]
             ELSE LET k == CHOOSE i \in failing : \A j \in failing : i <= j
                  IN  [raised |-> "OperationalError", generated |-> {},
                       trace |-> SubSeq(stmts, 1, k)]

ScriptOutcome(raised, trace, generated) ==
    [raised |-> raised, trace |-> trace, generated |-> generated]

\* run_migrations_offline(); config_url is the sqlalchemy.url of the
\* configuration file.  A URL whose dialect the engine cannot load makes
\* context.configure raise.
run_migrations_offline(environ, config_url, command, revisions) ==
    LET dsn == get_dsn_from_env(environ)
        url == IF dsn = {} THEN config_url ELSE CHOOSE d \in dsn : TRUE
        tenant == get_tenant(environ)
    IN  IF tenant.raised # "none"
        THEN ScriptOutcome(tenant.raised, <<>>, {})
        ELSE IF dialect_name(url) = "other"
        THEN ScriptOutcome("NoSuchModuleError", <<>>, {})
        ELSE LET m == run_migrations(command, TRUE, dialect_name(url), revisions)
             IN  ScriptOutcome(m.raised,
                     <<Event("configure",
                             IF tenant.ret # <<>>
                             THEN <<"version_table_schema">> \o tenant.ret
                             ELSE <<>>),
                       Event("begin_transaction", <<>>)>> \o m.trace,
                     m.generated)

\* run_migrations_online as it would be if the search path were set after
\* the migration context is configured, and not committed
run_migrations_online_late(environ, config_url, command, revisions, db_up) ==
    LET dsn == get_dsn_from_env(environ)
        url == IF dsn = {} THEN config_url ELSE CHOOSE d \in dsn : TRUE
        engine == <<Event("engine_from_config", url)>>
        current_tenant == get_tenant(environ)
        dialect == dialect_name(url)
    IN  IF dialect = "other"
        THEN ScriptOutcome("NoSuchModuleError", <<>>, {})
        ELSE IF current_tenant.raised # "none"
        THEN ScriptOutcome(current_tenant.raised, engine, {})
        ELSE IF ~db_up
        THEN ScriptOutcome("OperationalError", engine \o <<Event("connect", url)>>, {})
        ELSE
        LET select == IF current_tenant.ret = <<>> \/ dialect # "postgresql" THEN <<>>
                      ELSE <<Event("execute",
                                   <<"set search_path to">> \o current_tenant.ret)>>
            m == run_migrations(command, FALSE, dialect, revisions)
        IN  ScriptOutcome(m.raised,
                engine \o <<Event("connect", url), Event("configure", <<>>)>>
                \o select \o <<Event("begin_transaction", <<>>)>> \o m.trace,
                m.generated)

\* run_migrations_online(); db_up tells whether the database accepts the
\* connection.  engine_from_config raises for a URL whose dialect cannot be
\* loaded.
run_migrations_online(environ, config_url, command, revisions, db_up) ==
    LET dsn == get_dsn_from_env(environ)
        url == IF dsn = {} THEN config_url ELSE CHOOSE d \in dsn : TRUE
        engine == <<Event("engine_from_config", url)>>
        current_tenant == get_tenant(environ)
        dialect == dialect_name(url)
    IN  IF dialect = "other"
        THEN ScriptOutcome("NoSuchModuleError", <<>>, {})
        ELSE IF current_tenant.raised # "none"
        THEN ScriptOutcome(current_tenant.raised, engine, {})
        ELSE IF ~db_up
        THEN ScriptOutcome("OperationalError", engine \o <<Event("connect", url)>>, {})
        ELSE
        LET select == IF current_tenant.ret = <<>> THEN <<>>
                      ELSE (IF dialect = "postgresql"
                            THEN <<Event("execute",
                                         <<"set search_path to">> \o current_tenant.ret),
                                   Event("commit", <<>>)>>
                            ELSE <<>>)
                           \o <<Event("default_schema_name", current_tenant.ret)>>
            m == run_migrations(command, FALSE, dialect, revisions)
        IN  ScriptOutcome(m.raised,
                engine \o <<Event("connect", url)>> \o select
                \o <<Event("configure", <<>>), Event("begin_transaction", <<>>)>>
                \o m.trace,
                m.generated)

\* the script's last lines: offline mode is the engine's --sql
env_py(environ, config_url, command, offline, revisions, db_up) ==
    IF offline THEN run_migrations_offline(environ, config_url, command, revisions)
    ELSE run_migrations_online(environ, config_url, command, revisions, db_up)

(***************************************************************************)
(* The orchestrator of shed/core.py: run_alembic with its temporary        *)
(* workspace, migrate_database and create_revision, and the CLI commands   *)
(* migrate and revision.  run.pc is the position of the operation:         *)
(*   Idle -> TmpCreated -> WorkspaceBuilt -> ChildProcessRunning           *)
(*        -> ChildExited -> Succeeded | Failed                             *)
(* and Raised when an exception left run_alembic, Rejected when the        *)
(* target argument did not resolve.                                        *)
(***************************************************************************)
MaxRuns == 2

RunIdle ==
    [pc |-> "Idle", command |-> "none", dry_run |-> FALSE, use_ruff |-> FALSE,
     target |-> {}, tmp |-> <<>>, env |-> EmptyMap, launched_with |-> {},
     launches |-> 0, child |-> {}, raised |-> "none", result |-> {},
     exit |-> {}, formatter_runs |-> 0, revisions |-> <<>>, mtimes |-> <<>>]

Terminal == {"Succeeded", "Failed", "Raised", "Rejected"}

\* tempfile.mkdtemp(): a directory that did not exist, named by the run
mkdtemp(n) == Path(TRUE, <<<<"tmp">>, <<"shed", ToString(n)>>>>)

\* the files create_alembic_temp_files writes, in the order it writes them
WorkspaceFiles(tmp) ==
    <<PathJoin(tmp, Path(FALSE, <<<<"alembic.ini">>>>)),
      PathJoin(tmp, Path(FALSE, <<<<"env.py">>>>)),
      PathJoin(tmp, Path(FALSE, <<<<"script.py.mako">>>>))>>

\* shutil.rmtree(temp_dir)
rmtree(dirs, temp_dir) == {p \in dirs : ~IsRelativeTo(temp_dir, p)}

\* create_alembic_temp_files as it would be if a failing write were ignored
create_alembic_temp_files_ignoring(dirs, tmp, written) ==
    [raised |-> "none",
     fs |-> dirs \cup {WorkspaceFiles(tmp)[i] : i \in 1..written}]

\* create_alembic_temp_files(tmp, ...): written is the number of files it
\* wrote before a read, write or copy failed (3: it returned)
create_alembic_temp_files(dirs, tmp, written) ==
    [raised |-> IF written < 3 THEN "OSError" ELSE "none",
     fs |-> dirs \cup {WorkspaceFiles(tmp)[i] : i \in 1..written}]

\* the two variables run_alembic adds to the child's environment, as it
\* would be if the tenant variable were set from the database name
run_alembic_env_database(db_config) ==
    [SHED_CURRENT_DSN |-> get_dsn(db_config.connection),
     SHED_CURRENT_SCHEMA |-> db_name(db_config)]

\* the two variables run_alembic adds to the child's environment
run_alembic_env(db_config) ==
    [SHED_CURRENT_DSN |-> get_dsn(db_config.connection),
     SHED_CURRENT_SCHEMA |->
        IF schema_name(db_config.connection) = <<>> THEN <<>>
        ELSE schema_name(db_config.connection)[1]]

\* the CompletedProcess of subprocess.run
CompletedProcess(returncode, stdout, stderr, trace) ==
    [returncode |-> returncode, stdout |-> stdout, stderr |-> stderr,
     trace |-> trace]

\* the arguments of migrate_database as they would be without --sql
migrate_cmd_applying(dry_run) == <<"upgrade", "head">>

\* migrate_database: the engine's arguments; --sql makes the engine print the
\* statements and not apply them
migrate_cmd(dry_run) ==
    <<"upgrade", "head">> \o (IF dry_run THEN <<"--sql">> ELSE <<>>)

\* create_revision: the engine's arguments
revision_cmd == <<"revision", "-m", "msg", "--autogenerate">>

\* context.is_offline_mode(): the engine was started with --sql
is_offline_mode(cmd) == \E i \in 1..Len(cmd) : cmd[i] = "--sql"

\* the data files a run of the script opened: a connection to a file
\* database creates the file when it is not there
opened_files(trace) ==
    {StrToPath(Tail(trace[i].arg)) :
        i \in {j \in 1..Len(trace) :
                  trace[j].ev = "connect" /\ trace[j].arg[1] = "sqlite:///"}}

\* migrate_database as it would be if it looked for an error in the output
migrate_database_reads_output(db_config, dry_run, result) ==
    [success |-> result.returncode = 0 /\ result.stderr = <<>>,
     message |-> <<"Migrated database">>, sql |-> {}]

\* migrate_database, from the CompletedProcess on
migrate_database(db_config, dry_run, result) ==
    LET db_type == connection_type(db_config.connection)
    IN  IF result.returncode # 0
        THEN [success |-> FALSE,
              message |-> <<"Failed to run alembic migrations '">>
                          \o db_name(db_config) \o <<"' (", db_type, "): ">>
                          \o result.stderr,
              sql |-> IF dry_run THEN {result.stdout} ELSE {}]
        ELSE [success |-> TRUE,
              message |-> IF dry_run THEN result.stdout
                          ELSE <<"Migrated database '">> \o db_name(db_config)
                               \o <<"' (", db_type, ")">>,
              sql |-> {}]

\* the revision files of the versions directory, oldest first
revision_files(project_config, revisions) ==
    [i \in 1..Len(revisions) |->
        PathJoin(versions_dir(project_config),
                 Path(FALSE, <<<<"rev", ToString(i), ".py">>>>))]

\* versions_dir.glob("*.py"): the revision files with their modification
\* times, in the order the directory lists them (order is a permutation of
\* the files)
glob_py(project_config, revisions, mtimes, order) ==
    [i \in 1..Len(revisions) |->
        [path |-> revision_files(project_config, revisions)[order[i]],
         st_mtime |-> mtimes[order[i]]]]

\* the newest file as it would be if the first listed file were taken
first_listed(files) == IF Len(files) = 0 THEN {} ELSE {files[1].path}

\* max(revision_files, key=st_mtime, default=None): the first of the listed
\* files whose modification time no other exceeds; {} for None
max_st_mtime(files) ==
    IF Len(files) = 0 THEN {}
    ELSE {files[CHOOSE i \in 1..Len(files) :
                    /\ \A j \in 1..Len(files) : files[j].st_mtime <= files[i].st_mtime
                    /\ \A j \in 1..(i - 1) : files[j].st_mtime < files[i].st_mtime].path}

\* create_revision as it would be if the child's stdout were reported
create_revision_reports_stdout(project_config, use_ruff, ruff_available, files, result) ==
    [success |-> result.returncode = 0,
     message |-> <<"Alembic revision: ">> \o result.stdout,
     revision_file |-> {}, formatted |-> FALSE]

\* create_revision, from the CompletedProcess on; files is what the glob of
\* the versions directory lists; formatted tells whether format_with_ruff
\* was called
create_revision(project_config, use_ruff, ruff_available, files, result) ==
    IF result.returncode # 0
    THEN [success |-> FALSE,
          message |-> <<"Alembic revision failed: ">> \o result.stderr,
          revision_file |-> {}, formatted |-> FALSE]
    ELSE LET latest_revision == max_st_mtime(files)
         IN  [success |-> TRUE,
              message |-> <<"Created revision: ", "msg">>,
              revision_file |-> {PathToStr(f) : f \in latest_revision},
              formatted |-> use_ruff /\ latest_revision # {} /\ ruff_available]

\* create_revision as it would be if it did not test the migrations directory
create_revision_unguarded(project_config, dirs) == {}

\* create_revision, before the engine is run: the result it returns when the
\* migrations directory does not exist, {} when it goes on
create_revision_guard(project_config, dirs) ==
    IF migrations_dir(project_config) \notin dirs
    THEN {[success |-> FALSE,
           message |-> <<"Migrations directory not found at ">>
                       \o PathToStr(migrations_dir(project_config))
                       \o <<". Run '", "shed", " init' first.">>,
           revision_file |-> {}, formatted |-> FALSE]}
    ELSE {}

\* cli.migrate and cli.revision: the exit code for a result
cli_exit(result) == IF result.success THEN 0 ELSE 1

(***************************************************************************)
(* Inputs.  Names are sequences of characters; a path string is the        *)
(* sequence of its characters, "/" among them.                             *)
(***************************************************************************)
ProjA == <<"a">>
ProjB == <<"b">>
Prod == <<"p", "r", "o", "d">>

\* environment names: the project's own name, names that start or end with
\* "dev" in some case, and names that do not
EnvPool ==
    {ProjA, Dev, <<"D", "E", "V", "x">>, <<"x", "d", "e", "v">>,
     <<"x", "d", "e", "v", "x">>, Prod}

\* documents as yaml.safe_load returns them
Doc(projects) == [development |-> [db |-> EmptyMap], projects |-> projects]

SqliteDoc(path_str) == [type |-> "sqlite", connection |-> [db_path |-> path_str]]

PgDoc(database) ==
    [type |-> "postgres",
     connection |-> [host |-> "prod.example.com", port |-> 5432,
                     username |-> "prod_user", password |-> "prod_pass",
                     database |-> database]]

ModelsStr(name) == name \o <<"/", "models.py">>

One(k, v) == [x \in {k} |-> v]

\* the settings files the main specification starts from: none, the file a
\* first init leaves behind, a hand-edited file with absolute paths (one
\* of them outside the settings directory), a file with two projects and a
\* network database, and a file whose database name is rejected on load
StartDocs ==
    {Doc(One(ProjA, [module |-> ModelsStr(ProjA),
                     db |-> One(ProjA, SqliteDoc(<<"a", ".sqlite">>))])),
     Doc(One(ProjA, [module |-> <<"/", "r", "/">> \o ModelsStr(ProjA),
                     db |-> One(Prod, SqliteDoc(<<"/", "o", "/", "l.sqlite">>))])),
     Doc([n \in {ProjA, ProjB} |->
            [module |-> ModelsStr(n),
             db |-> IF n = ProjA THEN One(Prod, PgDoc(<<"d", "b">>))
                    ELSE EmptyMap]]),
     Doc(One(ProjA, [module |-> ModelsStr(ProjA),
                     db |-> One(Prod, PgDoc(<<"m", "y", " ", "d", "b">>))]))}

NoFile == [exists |-> FALSE, data |-> Doc(EmptyMap)]

\* a fresh in-memory instance, Settings(): no projects, no settings path
FreshSettings == Settings(EmptyMap, <<>>)

Loaded == settings.settings_path # <<>>

Op(name, args, raised, ret) ==
    [name |-> name, args |-> args, raised |-> raised, ret |-> ret]

\* arguments of add_project
CodePaths ==
    {PathJoin(RootDir, StrToPath(ModelsStr(<<"x">>))),
     PathJoin(OutsideDir, StrToPath(ModelsStr(<<"x">>))),
     StrToPath(ModelsStr(<<"x">>))}

\* the --connection option after parse_connection: absent, a relative file,
\* an absolute file outside the settings directory, a network database
Connections ==
    {{},
     {DatabaseConfig("sqlite", SqliteConnection(Path(FALSE, <<<<"lab.sqlite">>>>)))},
     {DatabaseConfig("sqlite",
          SqliteConnection(PathJoin(OutsideDir, Path(FALSE, <<<<"site.db">>>>))))},
     {DatabaseConfig("postgres",
          PostgresConnection("localhost", 5432, "user", <<"d", "b">>, "pw"))}}

\* the --output option: absent, or a directory outside the settings directory
Outputs == {<<>>, <<OutsideDir>>}

(***************************************************************************)
(* The state machine: one action per operation.                            *)
(***************************************************************************)
Init ==
    /\ settings = FreshSettings
    /\ file \in {NoFile} \cup {[exists |-> TRUE, data |-> d] : d \in StartDocs}
    /\ fs = {}
    /\ op = Op("start", <<>>, "none", {})
    /\ steps = 0
    /\ run = RunIdle

\* Settings.from_file(path), as the CLI callback main does on every start
Load ==
    /\ steps < MaxOps
    /\ LET r == from_file(SettingsPath, file)
       IN  /\ settings' = IF r.ret = {} THEN settings ELSE CHOOSE s \in r.ret : TRUE
           /\ file' = r.file
           /\ op' = Op("load", <<SettingsPath>>, r.raised, r.ret)
    /\ steps' = steps + 1
    /\ UNCHANGED <<fs, run>>

Save ==
    /\ Loaded
    /\ steps < MaxOps
    /\ LET w == save(settings, file)
       IN  /\ settings' = w.settings
           /\ file' = w.file
           /\ op' = Op("save", <<>>, w.raised, {})
    /\ steps' = steps + 1
    /\ UNCHANGED <<fs, run>>

AddProject(project_name, code_path) ==
    /\ Loaded
    /\ steps < MaxOps
    /\ LET r == add_project(settings, project_name, code_path)
       IN  /\ settings' = r.settings
           /\ op' = Op("add_project", <<project_name, code_path>>, r.raised, r.ret)
    /\ steps' = steps + 1
    /\ UNCHANGED <<file, fs, run>>

InitCmd(project_name, env, connection, force, output, dev_db_type) ==
    /\ Loaded
    /\ steps < MaxOps
    /\ LET c == cli_init(settings, file, fs, project_name, env, connection,
                         force, output, dev_db_type)
       IN  /\ settings' = c.result.settings
           /\ file' = c.result.file
           /\ fs' = c.result.fs
           /\ op' = Op("init",
                       <<project_name, env, connection, force, output, dev_db_type>>,
                       c.result.raised,
                       {[success |-> c.result.success, exit |-> c.exit,
                         config_created |-> c.result.config_created]})
    /\ steps' = steps + 1
    /\ UNCHANGED run

Next ==
    \/ Load
    \/ Save
    \/ \E n \in {ProjA, ProjB}, p \in CodePaths : AddProject(n, p)
    \/ \E e \in {Prod, ProjA}, c \in Connections, force \in BOOLEAN,
          o \in Outputs, t \in {"sqlite", "postgres"} :
            InitCmd(ProjA, e, c, force, o, t)

Spec == Init /\ [][Next]_vars

(***************************************************************************)
(* Target resolution is a function of the settings: a second specification *)
(* starts from the Settings loaded from a file whose project "a" has any   *)
(* subset of EnvPool as its environments, and applies the resolver and the *)
(* development-database lookup to it.                                      *)
(***************************************************************************)
EnvDoc(e) == SqliteDoc(e \o <<".sqlite">>)

ResolveDocs ==
    {Doc(One(ProjA, [module |-> ModelsStr(ProjA),
                     db |-> [e \in envs |-> EnvDoc(e)]])) :
        envs \in SUBSET EnvPool}

\* target strings: project, project.env, project. and malformed ones
Targets ==
    {ProjA, ProjB, <<>>, <<"a", ".", "b", ".", "c">>, <<"a", ".", ".">>}
    \cup {n \o <<".">> \o e : n \in {ProjA, ProjB}, e \in EnvPool \cup {<<>>}}

InitResolve ==
    /\ \E d \in ResolveDocs :
        /\ file = [exists |-> TRUE, data |-> d]
        /\ settings = ParseSettings(d, <<SettingsPath>>)
    /\ fs = {}
    /\ op = Op("start", <<>>, "none", {})
    /\ steps = 0
    /\ run = RunIdle

\* the click parameter type ProjectEnvironParser.convert
Resolve(value) ==
    /\ Loaded
    /\ LET r == parse_project_string(settings, value)
       IN  /\ settings' = r.settings
           /\ op' = Op("resolve", <<value>>, r.error, r.ret)
    /\ UNCHANGED <<file, fs, steps, run>>

\* settings.get_dev_db(project_name), as cli.clone calls it
GetDevDb(project_name) ==
    /\ Loaded
    /\ project_name \in DOMAIN settings.projects
    /\ op' = Op("get_dev_db", <<project_name>>, "none",
                get_dev_db(settings, project_name))
    /\ UNCHANGED <<settings, file, fs, steps, run>>

NextResolve ==
    \/ \E v \in Targets : Resolve(v)
    \/ \E n \in {ProjA, ProjB} : GetDevDb(n)

SpecResolve == InitResolve /\ [][NextResolve]_vars

(***************************************************************************)
(* The orchestrated commands run on one Settings: project "a" with a file  *)
(* development database and network databases without a schema, with the   *)
(* schema "prod", and with schema names the bootstrap script must judge.   *)
(* A third specification starts from it, with or without the directories   *)
(* init creates, and runs migrate, revision and clone.                     *)
(***************************************************************************)
Lab == <<"l", "a", "b">>
Bad == <<"b", "a", "d">>
Nl == <<"n", "l">>

PgSchemaDoc(database, password, schema) ==
    [type |-> "postgres",
     connection |-> [host |-> "db.example.com", port |-> 5432,
                     username |-> "user", password |-> password,
                     database |-> database, schema_name |-> schema]]

RunDoc ==
    Doc(One(ProjA,
        [module |-> ModelsStr(ProjA),
         db |-> [e \in {ProjA, Lab, Prod, Bad, Nl} |->
                   CASE e = ProjA -> SqliteDoc(<<"a", ".sqlite">>)
                     [] e = Lab -> PgDoc(<<"d", "b">>)
                     [] e = Prod -> PgSchemaDoc(<<"d", "b">>, "p@ss w", Prod)
                     [] e = Bad -> PgSchemaDoc(<<"d", "b">>, "pw", <<"P", "r", "o", "d">>)
                     [] e = Nl -> PgSchemaDoc(<<"d", "b">>, "pw", <<"a", "b", "\n">>)]]))

\* the directories and the file a successful init of project "a" leaves
ProjectTree ==
    LET project_dir == PathJoin(RootDir, Path(FALSE, <<ProjA>>))
        mig == PathJoin(project_dir, Path(FALSE, <<<<"migrations">>>>))
    IN  {project_dir, mig, PathJoin(mig, Path(FALSE, <<<<"versions">>>>)),
         PathJoin(project_dir, Path(FALSE, <<<<"models.py">>>>))}

\* target arguments: the project alone, its environments, an unknown one
RunTargets ==
    {ProjA} \cup {ProjA \o <<".">> \o e : e \in {Lab, Prod, Bad, Nl, <<"z">>}}

\* what a child process may print besides what the script causes
StdoutNoise == {<<>>, <<"FAILED">>}
StderrLog == {<<>>, <<"INFO">>}

InitRun ==
    /\ file \in {NoFile, [exists |-> TRUE, data |-> RunDoc]}
    /\ settings = FreshSettings
    /\ fs \in {{}, ProjectTree}
    /\ op = Op("start", <<>>, "none", {})
    /\ steps = 0
    /\ run = RunIdle

\* cli.migrate / cli.revision from the start of the process up to the
\* creation of the temporary directory: main loads the settings (and writes
\* the file when there is none), the target argument is resolved,
\* create_revision tests the migrations directory, run_alembic enters
\* create_temp_dir
RunStart(command, value, dry_run, use_ruff) ==
    /\ run.pc \in {"Idle"} \cup Terminal
    /\ steps < MaxRuns
    /\ \E l \in {from_file(SettingsPath, file)} : \E s \in l.ret :
       LET r == parse_project_string(s, value)
           begun == [RunIdle EXCEPT !.command = command, !.dry_run = dry_run,
                                    !.use_ruff = use_ruff, !.target = r.ret,
                                    !.revisions = run.revisions,
                                    !.mtimes = run.mtimes]
       IN  /\ IF r.error # "none"
              THEN /\ run' = [begun EXCEPT !.pc = "Rejected", !.raised = r.error,
                                           !.exit = {2}]
                   /\ fs' = fs
              ELSE LET t == CHOOSE x \in r.ret : TRUE
                       early == IF command = "revision"
                                THEN create_revision_guard(t.project_config, fs)
                                ELSE {}
                   IN  IF early # {}
                       THEN /\ run' = [begun EXCEPT
                                          !.pc = "Failed", !.exit = {1},
                                          !.result = early]
                            /\ fs' = fs
                       ELSE /\ run' = [begun EXCEPT !.pc = "TmpCreated",
                                                    !.tmp = <<mkdtemp(steps + 1)>>]
                            /\ fs' = fs \cup {mkdtemp(steps + 1)}
           /\ settings' = s
           /\ file' = l.file
    /\ op' = Op(command, <<value>>, "none", {})
    /\ steps' = steps + 1

\* run_alembic: create_alembic_temp_files; an exception leaves the with
\* block of create_temp_dir, whose generator has no try/finally, so the
\* rmtree after its yield does not run
RunMaterialize(written) ==
    /\ run.pc = "TmpCreated"
    /\ LET w == create_alembic_temp_files(fs, run.tmp[1], written)
       IN  /\ fs' = w.fs
           /\ run' = IF w.raised # "none"
                     THEN [run EXCEPT !.pc = "Raised", !.raised = w.raised,
                                      !.exit = {1}]
                     ELSE [run EXCEPT !.pc = "WorkspaceBuilt"]
    /\ UNCHANGED <<settings, file, op, steps>>

\* run_alembic: the child's environment is built and subprocess.run starts
\* the engine; found tells whether the executable exists
RunLaunch(found) ==
    /\ run.pc = "WorkspaceBuilt"
    /\ LET t == CHOOSE x \in run.target : TRUE
           env == run_alembic_env(t.db_config)
       IN  run' = IF ~found
                  THEN [run EXCEPT !.pc = "Raised", !.raised = "FileNotFoundError",
                                   !.env = env, !.exit = {1}]
                  ELSE [run EXCEPT !.pc = "ChildProcessRunning", !.env = env,
                                   !.launches = @ + 1,
                                   !.launched_with =
                                       {f \in fs : IsRelativeTo(run.tmp[1], f)}]
    /\ UNCHANGED <<settings, file, fs, op, steps>>

\* the child process: the engine runs the bootstrap script of the workspace
\* and exits; revision writes its file when it succeeds.  tick tells whether
\* the clock of the file system has advanced since the newest revision file
\* was written: modification times have a granularity.
RunChildExit(db_up, engine_fails, noise, log, tick) ==
    /\ run.pc = "ChildProcessRunning"
    /\ LET cmd == IF run.command = "migrate" THEN migrate_cmd(run.dry_run)
                  ELSE revision_cmd
           s == env_py(run.env, sqlalchemy_url, cmd[1], is_offline_mode(cmd),
                       run.revisions, db_up)
           ok == s.raised = "none" /\ ~engine_fails
           emitted == Flatten([i \in 1..Len(s.trace) |->
                                  IF s.trace[i].ev = "emit" THEN s.trace[i].arg
                                  ELSE <<>>])
           stderr == log \o (IF s.raised # "none" THEN <<s.raised>>
                             ELSE IF engine_fails THEN <<"FAILED">> ELSE <<>>)
       IN  /\ fs' = fs \cup (IF db_up THEN opened_files(s.trace) ELSE {})
           /\ run' = [run EXCEPT
                             !.pc = "ChildExited",
                             !.child = {CompletedProcess(IF ok THEN 0 ELSE 1,
                                                         noise \o emitted, stderr, s.trace)},
                             !.revisions = IF ok /\ s.generated # {}
                                           THEN Append(@, CHOOSE g \in s.generated : TRUE)
                                           ELSE @,
                             !.mtimes = IF ok /\ s.generated # {}
                                        THEN Append(@, IF Len(@) = 0 THEN 1
                                                       ELSE @[Len(@)]
                                                            + (IF tick THEN 1 ELSE 0))
                                        ELSE @]
    /\ UNCHANGED <<settings, file, op, steps>>

\* subprocess.run returns: the with block ends (rmtree), migrate_database or
\* create_revision builds its result, the command exits; order is the order
\* in which the versions directory lists its files
RunReturn(ruff_available, order) ==
    /\ run.pc = "ChildExited"
    /\ LET t == CHOOSE x \in run.target : TRUE
           result == CHOOSE c \in run.child : TRUE
           res == IF run.command = "migrate"
                  THEN migrate_database(t.db_config, run.dry_run, result)
                  ELSE create_revision(t.project_config, run.use_ruff, ruff_available,
                                       glob_py(t.project_config, run.revisions,
                                               run.mtimes, order),
                                       result)
       IN  /\ run' = [run EXCEPT
                         !.pc = IF res.success THEN "Succeeded" ELSE "Failed",
                         !.result = {res},
                         !.exit = {cli_exit(res)},
                         !.formatter_runs =
                             IF run.command = "revision" /\ res.formatted
                             THEN @ + 1 ELSE @]
           /\ fs' = rmtree(fs, run.tmp[1])
    /\ UNCHANGED <<settings, file, op, steps>>

\* cli.clone, from the start of the process; the target argument is
\* optional
Clone(src, target, dry_run) ==
    /\ run.pc \in {"Idle"} \cup Terminal
    /\ steps < MaxRuns
    /\ \E l \in {from_file(SettingsPath, file)} : \E loaded \in l.ret :
       LET s == parse_project_string(loaded, src)
           t == IF target = {} THEN {}
                ELSE {parse_project_string(loaded, v) : v \in target}
       IN  /\ IF s.error # "none" \/ \E x \in t : x.error # "none"
              THEN op' = Op("clone", <<src, target, dry_run>>, "BadParameter",
                            {CloneOutcome(2, <<>>, <<>>, 0)})
              ELSE op' = Op("clone", <<src, target, dry_run>>, "none",
                            {cli_clone(loaded, CHOOSE x \in s.ret : TRUE,
                                       UNION {x.ret : x \in t}, dry_run)})
           /\ settings' = loaded
           /\ file' = l.file
    /\ run' = [RunIdle EXCEPT !.revisions = run.revisions, !.mtimes = run.mtimes]
    /\ steps' = steps + 1
    /\ UNCHANGED fs

NextRun ==
    \/ \E v \in RunTargets, dry_run \in BOOLEAN : RunStart("migrate", v, dry_run, FALSE)
    \/ \E v \in RunTargets, use_ruff \in BOOLEAN : RunStart("revision", v, FALSE, use_ruff)
    \/ \E written \in 0..3 : RunMaterialize(written)
    \/ \E found \in BOOLEAN : RunLaunch(found)
    \/ \E db_up \in BOOLEAN, engine_fails \in BOOLEAN, noise \in StdoutNoise,
          log \in StderrLog, tick \in BOOLEAN :
            RunChildExit(db_up, engine_fails, noise, log, tick)
    \/ \E ruff_available \in BOOLEAN, order \in Permutations(1..Len(run.revisions)) :
            RunReturn(ruff_available, order)
    \/ \E src \in RunTargets, target \in {{}} \cup {{v} : v \in RunTargets},
          dry_run \in BOOLEAN : Clone(src, target, dry_run)

SpecRun == InitRun /\ [][NextRun]_vars

(***************************************************************************)
(* A fourth specification applies single functions to inputs drawn from    *)
(* bounded sets: the bootstrap script as the engine runs it, with whatever *)
(* environment and configuration file the engine was started with, and the *)
(* load of a settings file that declares a network database.               *)
(***************************************************************************)
\* the child's environment: each of the two variables absent, empty or set
Environ(dsn, schema) ==
    [k \in {x \in {"SHED_CURRENT_DSN"} : dsn # {}}
            \cup {x \in {"SHED_CURRENT_SCHEMA"} : schema # {}} |->
        IF k = "SHED_CURRENT_DSN" THEN CHOOSE d \in dsn : TRUE
        ELSE CHOOSE d \in schema : TRUE]

ScriptEnvirons ==
    {Environ(dsn, schema) :
        dsn \in {{}, {<<>>}, {<<"sqlite:///", "/r/a.sqlite">>},
                 {<<"postgresql://", "user", ":", "pw", "@", "h", ":", "5432", "/", "db">>}},
        schema \in {{}, {<<>>}, {Prod}}}

\* sqlalchemy.url of the configuration file: the placeholder or a database
ConfigUrls == {sqlalchemy_url, <<"sqlite:///", "/r/ini.sqlite">>}

InitScript ==
    /\ file = NoFile
    /\ settings = FreshSettings
    /\ fs = {}
    /\ op = Op("start", <<>>, "none", {})
    /\ steps = 0
    /\ run = RunIdle

\* the engine runs env.py
Script(environ, config_url, command, offline, revisions, db_up) ==
    /\ LET s == env_py(environ, config_url, command, offline, revisions, db_up)
       IN  op' = Op("env_py", <<environ, config_url, command, offline, revisions, db_up>>,
                    s.raised, {s})
    /\ UNCHANGED <<settings, file, fs, steps, run>>

\* database names of a network connection: plain, with a space, a tab, a
\* newline at the end
DatabaseNames ==
    {<<"d", "b">>, <<"m", "y", " ", "d", "b">>, <<"m", "y", "\t", "d", "b">>,
     <<"d", "b", "\n">>}

\* Settings.from_file on a settings file that declares one network database
LoadDatabase(database) ==
    /\ LET f == [exists |-> TRUE,
                 data |-> Doc(One(ProjA, [module |-> ModelsStr(ProjA),
                                          db |-> One(Prod, PgDoc(database))]))]
           r == from_file(SettingsPath, f)
       IN  op' = Op("from_file", <<database>>, r.raised, r.ret)
    /\ UNCHANGED <<settings, file, fs, steps, run>>

NextScript ==
    \/ \E environ \in ScriptEnvirons, config_url \in ConfigUrls,
          command \in {"upgrade", "revision"}, offline \in BOOLEAN,
          revisions \in {<<>>, <<target_metadata>>}, db_up \in BOOLEAN :
            Script(environ, config_url, command, offline, revisions, db_up)
    \/ \E database \in DatabaseNames : LoadDatabase(database)

SpecScript == InitScript /\ [][NextScript]_vars

(***************************************************************************)
(* Properties.                                                             *)
(***************************************************************************)
DbMapPaths(db) ==
    {db[e].connection.db_path : e \in {x \in DOMAIN db : db[x].connection.kind = "sqlite"}}

\* every path-bearing field of a Settings
PathsOf(s) ==
    UNION {{s.projects[n].module} \cup DbMapPaths(s.projects[n].db) :
           n \in DOMAIN s.projects}
    \cup DbMapPaths(s.development.db)

DocDbMapPathStrs(db) ==
    {db[e].connection.db_path :
        e \in {x \in DOMAIN db : "db_path" \in DOMAIN db[x].connection}}

\* every path string of a settings document
DocPathStrs(d) ==
    UNION {{d.projects[n].module} \cup DocDbMapPathStrs(d.projects[n].db) :
           n \in DOMAIN d.projects}
    \cup DocDbMapPathStrs(d.development.db)

UnderRoot(s) == \A q \in PathsOf(s) : IsRelativeTo(SettingsRoot(s), q)

\* saving s and loading the written file gives back s
RoundTrips(s, f) ==
    LET w == save(s, f)
    IN  /\ w.raised = "none"
        /\ from_file(s.settings_path[1], w.file).ret = {s}

\* C1: round-trip law: for every Settings with a settings path and at least
\* one path field, save followed by load of the written file yields a
\* Settings equal to it, field for field.
C1_RoundTripLaw ==
    (Loaded /\ PathsOf(settings) # {}) => RoundTrips(settings, file)

\* The law restricted to the Settings whose paths all lie under the
\* settings directory (where relative_to does not raise).
RoundTripUnderRoot ==
    (Loaded /\ PathsOf(settings) # {} /\ UnderRoot(settings))
        => RoundTrips(settings, file)

\* C2: in-memory path invariant: in every state reached by load, add_project,
\* init and save on a Settings with a settings path, every path-bearing field
\* (each project's module, each file connection's db_path) is absolute.
C2_InMemoryAbsolute ==
    Loaded => \A q \in PathsOf(settings) : q.abs

\* a successful save has just run on a Settings that has file connections
C2_Witness ==
    /\ op.name = "save" /\ op.raised = "none"
    /\ \E n \in DOMAIN settings.projects :
           DbMapPaths(settings.projects[n].db) # {}

\* C3: on-disk path invariant: whenever the settings file is written (a
\* successful save, alone or inside load or init), every path in the written
\* file is relative; no absolute path is written.
C3_OnDiskRelative ==
    [][(file' # file \/ (op'.name = "save" /\ op'.raised = "none"))
           => /\ file'.exists
              /\ \A str \in DocPathStrs(file'.data) : ~StrToPath(str).abs]_vars

\* a successful save wrote a file that holds a module path and a db_path
C3_Witness ==
    /\ op.name = "save" /\ op.raised = "none"
    /\ file.exists
    /\ \E n \in DOMAIN file.data.projects :
           DocDbMapPathStrs(file.data.projects[n].db) # {}
    /\ \A q \in PathsOf(settings) : q.abs

\* C4: bootstrap load: load with no file present returns an empty Settings
\* whose source path is the given path and writes the file; a second load
\* returns an equal Settings and leaves the file as it is (a load of an
\* existing file never writes).
C4_BootstrapLoad ==
    [][op'.name = "load" =>
        IF ~file.exists
        THEN /\ op'.raised = "none"
             /\ op'.ret = {settings'}
             /\ settings'.projects = EmptyMap
             /\ settings'.settings_path = <<SettingsPath>>
             /\ file'.exists
             /\ from_file(SettingsPath, file').ret = {settings'}
             /\ from_file(SettingsPath, file').file = file'
        ELSE file' = file]_vars

\* the first operation was a load that found no file (no start document has
\* an empty project map)
C4_Witness ==
    /\ op.name = "load" /\ op.raised = "none" /\ steps = 1
    /\ settings.projects = EmptyMap
    /\ file.exists

C6_AddProject ==
    [][op'.name = "add_project" =>
        LET name == op'.args[1]
            code_path == op'.args[2]
        IN  IF ~code_path.abs
            THEN op'.raised # "none" /\ settings' = settings
            ELSE IF name \in DOMAIN settings.projects
            THEN /\ op'.raised = "none"
                 /\ settings' = settings
                 /\ op'.ret = {settings.projects[name]}
            ELSE /\ op'.raised = "none"
                 /\ DOMAIN settings'.projects = DOMAIN settings.projects \cup {name}
                 /\ settings'.projects[name] = ProjectConfig(code_path, EmptyMap)
                 /\ op'.ret = {settings'.projects[name]}
                 /\ \A n \in DOMAIN settings.projects :
                        settings'.projects[n] = settings.projects[n]
                 /\ settings'.settings_path = settings.settings_path]_vars

\* add_project returned an existing entry whose module is not the path passed
\* and whose environment map is not empty
C6_Witness ==
    /\ op.name = "add_project" /\ op.raised = "none"
    /\ op.args[1] \in DOMAIN settings.projects
    /\ settings.projects[op.args[1]].module # op.args[2]
    /\ DOMAIN settings.projects[op.args[1]].db # {}

\* C7: dev_database returns the environment named exactly like the project
\* whenever there is one, however many dev*/*dev environments there are.
C7_DevDbExactName ==
    (op.name = "get_dev_db" /\ op.args[1] \in DOMAIN settings.projects[op.args[1]].db)
        => op.ret = {settings.projects[op.args[1]].db[op.args[1]]}

\* the lookup ran on a project with an exact-name environment and at least
\* two dev*/*dev environments
C7_Witness ==
    /\ op.name = "get_dev_db"
    /\ op.args[1] \in DOMAIN settings.projects[op.args[1]].db
    /\ Cardinality({e \in DOMAIN settings.projects[op.args[1]].db : IsDevName(e)}) >= 2
    /\ op.ret # {}

\* the dev*/*dev environments of a project, written out for each name
DevLike(db) ==
    {e \in DOMAIN db :
        \E i \in {1, Len(e) - 2} :
            /\ i >= 1 /\ i + 2 <= Len(e)
            /\ e[i] \in {"d", "D"} /\ e[i + 1] \in {"e", "E"} /\ e[i + 2] \in {"v", "V"}}

\* C8: with no environment named like the project, dev_database returns the
\* one environment whose name starts or ends with "dev" (in any case) when
\* there is exactly one, and "not found" when there is none or several.
C8_DevDbHeuristic ==
    (op.name = "get_dev_db" /\ op.args[1] \notin DOMAIN settings.projects[op.args[1]].db)
        => LET db == settings.projects[op.args[1]].db
           IN  IF Cardinality(DevLike(db)) = 1
               THEN op.ret = {db[e] : e \in DevLike(db)}
               ELSE op.ret = {}

\* the lookup found the single dev-like environment, whose name is in upper
\* case, among other environments
C8_Witness ==
    /\ op.name = "get_dev_db"
    /\ op.args[1] \notin DOMAIN settings.projects[op.args[1]].db
    /\ DevLike(settings.projects[op.args[1]].db) = {<<"D", "E", "V", "x">>}
    /\ Cardinality(DOMAIN settings.projects[op.args[1]].db) >= 2
    /\ op.ret = {settings.projects[op.args[1]].db[<<"D", "E", "V", "x">>]}

\* number of "." in a target string
Dots(value) == Cardinality({i \in 1..Len(value) : value[i] = "."})

\* C9: resolve error taxonomy and precedence: more than one "." fails with
\* InvalidTargetFormat; otherwise an unknown project fails with
\* UnknownProject; otherwise a qualified target (one ".") whose environment
\* is no key of the project's environments fails with UnknownEnvironment;
\* otherwise an unqualified target without a development database fails with
\* NoDevDatabase; no failing case returns a ResolvedTarget.
C9_ResolveErrors ==
    op.name = "resolve" =>
        LET value == op.args[1]
            tokens == Split(value, ".")
        IN  /\ (op.raised # "none" => op.ret = {})
            /\ IF Dots(value) > 1 THEN op.raised = "InvalidTargetFormat"
               ELSE IF tokens[1] \notin DOMAIN settings.projects
               THEN op.raised = "UnknownProject"
               ELSE IF Dots(value) = 1
               THEN (tokens[2] \notin DOMAIN settings.projects[tokens[1]].db
                        => op.raised = "UnknownEnvironment")
               ELSE (get_dev_db(settings, tokens[1]) = {}
                        => op.raised = "NoDevDatabase")

\* The taxonomy as the code has it: a target that ends in "." is resolved as
\* an unqualified one.
ResolveErrorsAsCoded ==
    op.name = "resolve" =>
        LET value == op.args[1]
            tokens == Split(value, ".")
            qualified == Dots(value) = 1 /\ tokens[2] # <<>>
        IN  /\ (op.raised # "none" => op.ret = {})
            /\ IF Dots(value) > 1 THEN op.raised = "InvalidTargetFormat"
               ELSE IF tokens[1] \notin DOMAIN settings.projects
               THEN op.raised = "UnknownProject"
               ELSE IF qualified
               THEN (tokens[2] \notin DOMAIN settings.projects[tokens[1]].db
                        <=> op.raised = "UnknownEnvironment")
               ELSE (get_dev_db(settings, tokens[1]) = {}
                        <=> op.raised = "NoDevDatabase")

\* C10: resolve is a pure read: whether it succeeds or fails, the settings
\* are the same before and after the call and nothing is written to disk.
C10_ResolvePureRead ==
    [][op'.name = "resolve" =>
        /\ settings' = settings
        /\ file' = file
        /\ fs' = fs]_vars

\* a resolution succeeded on a project with several environments
C10_Witness ==
    /\ op.name = "resolve" /\ op.raised = "none"
    /\ \E r \in op.ret :
           Cardinality(DOMAIN settings.projects[r.project_name].db) >= 2

\* C11: for every target string with a "." (the qualified form project.env),
\* a successful resolve returns the project's entry, exactly the database
\* stored under the key env, and environment_name = env; the development
\* database heuristic is used, with environment_name null, only for a target
\* string without a ".".
C11_QualifiedForm ==
    (op.name = "resolve" /\ op.raised = "none") =>
        LET value == op.args[1]
            tokens == Split(value, ".")
            project_config == settings.projects[tokens[1]]
        IN  IF Dots(value) = 1
            THEN /\ tokens[2] \in DOMAIN project_config.db
                 /\ op.ret = {ProjectEnvironment(tokens[1], project_config,
                                  project_config.db[tokens[2]], <<tokens[2]>>)}
            ELSE op.ret = {ProjectEnvironment(tokens[1], project_config, d, <<>>) :
                           d \in get_dev_db(settings, tokens[1])}

\* The same as the code has it: a target that ends in "." is resolved with
\* the development database heuristic, and its environment_name is the empty
\* string.
QualifiedFormAsCoded ==
    (op.name = "resolve" /\ op.raised = "none") =>
        LET value == op.args[1]
            tokens == Split(value, ".")
            project_config == settings.projects[tokens[1]]
        IN  IF Dots(value) = 1 /\ tokens[2] # <<>>
            THEN /\ tokens[2] \in DOMAIN project_config.db
                 /\ op.ret = {ProjectEnvironment(tokens[1], project_config,
                                  project_config.db[tokens[2]], <<tokens[2]>>)}
            ELSE op.ret = {ProjectEnvironment(tokens[1], project_config, d,
                               IF Dots(value) = 1 THEN <<<<>>>> ELSE <<>>) :
                           d \in get_dev_db(settings, tokens[1])}

(***************************************************************************)
(* Properties of the orchestrator (specification SpecRun).                 *)
(***************************************************************************)
Returned == run.pc \in {"Succeeded", "Failed"} /\ run.child # {}

\* texts a child process might have printed
AnyOutput == {<<>>, <<"FAILED">>, <<"INFO">>, <<"ok">>, <<"Traceback", "ValueError">>}

\* the success flag of the command for a CompletedProcess
SuccessFor(result) ==
    LET t == CHOOSE x \in run.target : TRUE
    IN  IF run.command = "migrate"
        THEN migrate_database(t.db_config, run.dry_run, result).success
        ELSE create_revision(t.project_config, run.use_ruff, TRUE,
                             glob_py(t.project_config, run.revisions, run.mtimes,
                                     [i \in 1..Len(run.revisions) |-> i]),
                             result).success

\* C12: the exit code is authoritative: migrate and create_revision report
\* success exactly when the child exited with code 0 (the migrations
\* directory existing), and with the same exit code the success flag is the
\* same whatever the child wrote to stdout and stderr.
C12_ExitCodeAuthoritative ==
    Returned =>
        \A c \in run.child, res \in run.result :
            /\ res.success <=> c.returncode = 0
            /\ \A o \in AnyOutput, e \in AnyOutput :
                   SuccessFor(CompletedProcess(c.returncode, o, e, c.trace))
                       = res.success

\* a command succeeded although the child printed FAILED on stdout and wrote
\* to stderr
C12_Witness ==
    /\ run.pc = "Succeeded"
    /\ \E c \in run.child :
           /\ c.returncode = 0
           /\ c.stderr # <<>>
           /\ \E i \in 1..Len(c.stdout) : c.stdout[i] = "FAILED"

\* the paths of the temporary workspace of the current operation
Workspace == {f \in fs : run.tmp # <<>> /\ IsRelativeTo(run.tmp[1], f)}

\* C13: the temporary workspace is a scoped resource: once run has returned
\* or let an exception through (while writing the workspace files, or while
\* launching or awaiting the child), the directory it created is gone.
C13_WorkspaceScoped ==
    run.pc \in Terminal => Workspace = {}

\* The same on the paths where run returns a CompletedProcess.
WorkspaceRemovedOnReturn ==
    run.pc \in {"Succeeded", "Failed"} => Workspace = {}

\* C14: the orchestration state machine: an operation moves from Idle to
\* WorkspaceBuilt to ChildProcessRunning to Succeeded or Failed, in that
\* order: the child is launched only from WorkspaceBuilt with the engine
\* configuration file and the bootstrap script written, it is launched at
\* most once (a non-zero exit is followed by Failed, never by a new launch),
\* and an operation with a child ends only after the child has exited,
\* Succeeded for exit code 0 and Failed otherwise.
C14_Orchestration ==
    [][/\ run'.launches # run.launches =>
            \/ run'.launches = 0 /\ run'.pc \in {"Idle", "TmpCreated"} \cup Terminal
            \/ /\ run.pc = "WorkspaceBuilt" /\ run'.pc = "ChildProcessRunning"
               /\ run.launches = 0 /\ run'.launches = 1
               /\ \A i \in 1..2 : WorkspaceFiles(run.tmp[1])[i] \in fs
       /\ (run'.pc = "ChildProcessRunning" /\ run.pc # "ChildProcessRunning")
              => run'.launches = run.launches + 1
       /\ run.pc = "ChildProcessRunning" => run'.pc \in {"ChildProcessRunning", "ChildExited"}
       /\ run.pc = "ChildExited" =>
              \A c \in run.child :
                  run'.pc \in {"ChildExited",
                               IF c.returncode = 0 THEN "Succeeded" ELSE "Failed"}
       /\ (run'.pc = "Succeeded" /\ run.pc # "Succeeded") => run.pc = "ChildExited"
       /\ (run'.pc = "Failed" /\ run.pc # "Failed" /\ run'.launches > 0)
              => run.pc = "ChildExited"
       /\ (run'.pc = "WorkspaceBuilt" /\ run.pc # "WorkspaceBuilt")
              => run.pc = "TmpCreated"]_vars

\* an operation failed after its only launch, which found the three files
\* of the workspace
C14_Witness ==
    /\ run.pc = "Failed"
    /\ run.launches = 1
    /\ Cardinality(run.launched_with) = 4
    /\ \E c \in run.child : c.returncode # 0

Contains(msg, s) ==
    \E i \in 1..(Len(msg) - Len(s) + 1) : SubSeq(msg, i, i + Len(s) - 1) = s

\* C16: an engine failure is surfaced: when the child exits non-zero,
\* migrate and create_revision return success = false with a message that
\* contains the captured stderr; create_revision reports no revision file
\* and runs no formatter; the command exits with code 1.
C16_FailureSurfaced ==
    (Returned /\ \E c \in run.child : c.returncode # 0) =>
        \A c \in run.child, res \in run.result :
            /\ ~res.success
            /\ c.stderr # <<>>
            /\ Contains(res.message, c.stderr)
            /\ run.exit = {1}
            /\ run.command = "revision" =>
                   /\ res.revision_file = {}
                   /\ ~res.formatted
                   /\ run.formatter_runs = 0

\* a revision with the formatter enabled failed while an earlier revision
\* file was there, the child having written a log line and the error
C16_Witness ==
    /\ run.pc = "Failed" /\ run.command = "revision" /\ run.use_ruff
    /\ run.revisions # <<>>
    /\ \E c \in run.child : c.returncode # 0 /\ Len(c.stderr) = 2

\* C17: clone with source and target databases of different types fails
\* with exit code 1 and a message naming both types, clone_database is not
\* called, the settings stay as they were loaded and neither the settings
\* file nor the file system is touched, whether the target is given or defaulted to the development
\* database of the source project.
C17_CloneMismatch ==
    [][(op'.name = "clone" /\ op'.raised = "none" /\ steps' = steps + 1) =>
        LET src == parse_project_string(settings', op'.args[1]).ret
            tgt == IF op'.args[2] = {}
                   THEN UNION {get_dev_db(settings', s.project_name) : s \in src}
                   ELSE UNION {{x.db_config :
                                   x \in parse_project_string(settings', v).ret} :
                               v \in op'.args[2]}
        IN  \A s \in src, d \in tgt :
                s.db_config.connection.kind # d.connection.kind =>
                    /\ \A o \in op'.ret :
                           /\ o.exit = 1
                           /\ o.clone_calls = 0
                           /\ \E i, j \in 1..Len(o.stderr) :
                                  /\ i < j
                                  /\ o.stderr[i] = s.db_config.connection.kind
                                  /\ o.stderr[j] = d.connection.kind
                    /\ settings' \in from_file(SettingsPath, file).ret
                    /\ file' = file /\ fs' = fs]_vars

\* clone of a network database without a target argument was refused: the
\* development database of the project is a file database
C17_Witness ==
    /\ op.name = "clone" /\ op.raised = "none"
    /\ op.args[2] = {}
    /\ \E o \in op.ret : o.exit = 1 /\ o.clone_calls = 0 /\ Len(o.stderr) = 5

IsSearchPath(e) == e.ev = "execute" /\ e.arg[1] = "set search_path to"

\* C18: tenant ordering: in an online run on a network (postgres) database
\* with a non-empty tenant, the statement that sets the search path to the
\* tenant is executed and directly committed before the migration context is
\* configured and before any migration statement; with an empty tenant no
\* search path statement is issued and the default schema is not overridden.
C18_TenantOrdering ==
    \A c \in run.child, t \in run.target :
        ~run.dry_run =>
            LET schema == run.env["SHED_CURRENT_SCHEMA"]
            IN  IF schema = <<>>
                THEN \A k \in 1..Len(c.trace) :
                         /\ ~IsSearchPath(c.trace[k])
                         /\ c.trace[k].ev # "default_schema_name"
                ELSE (/\ t.db_config.connection.kind = "postgres"
                      /\ \A i \in 1..Len(schema) : schema[i] \in TenantChars)
                     => \A k \in 1..Len(c.trace) :
                            (/\ c.trace[k].ev \in {"configure", "begin_transaction",
                                                   "generate", "execute", "emit"}
                             /\ ~IsSearchPath(c.trace[k]))
                            => \E i \in 1..(k - 2) :
                                   /\ c.trace[i] = Event("execute",
                                                      <<"set search_path to">> \o schema)
                                   /\ c.trace[i + 1] = Event("commit", <<>>)

\* an online upgrade on the database with the schema "prod" executed the
\* statements of a revision file after selecting the schema
C18_Witness ==
    /\ run.command = "migrate" /\ ~run.dry_run
    /\ \E c \in run.child :
           /\ c.returncode = 0
           /\ \E i, k \in 1..Len(c.trace) :
                  /\ i < k
                  /\ c.trace[i] = Event("execute", <<"set search_path to">> \o Prod)
                  /\ c.trace[k].ev = "execute" /\ c.trace[k].arg[1] = "CREATE TABLE"

\* C19: on a file (sqlite) database every model object that declares an
\* explicit schema is left out of revision generation and migration: no
\* generated operation and no executed or printed statement names it, while
\* the objects without a schema are generated.
C19_SchemaExclusion ==
    \A c \in run.child, t \in run.target :
        t.db_config.connection.kind = "sqlite" =>
            /\ \A k \in 1..Len(c.trace) :
                   c.trace[k].ev \in {"generate", "execute", "emit"}
                       => Len(c.trace[k].arg) = 2
            /\ (run.command = "revision" /\ c.returncode = 0) =>
                   \E k \in 1..Len(c.trace) :
                       c.trace[k] = Event("generate", <<"create_table", "user">>)

\* C20: a non-empty tenant name with a character outside a-z and "_" is
\* rejected by the bootstrap script (the child fails with the ValueError)
\* before a connection is opened and before any statement is executed or
\* printed, online and offline.
C20_TenantValidation ==
    \A c \in run.child :
        LET schema == run.env["SHED_CURRENT_SCHEMA"]
        IN  (schema # <<>> /\ \E i \in 1..Len(schema) : schema[i] \notin TenantChars)
            => /\ c.returncode # 0
               /\ Contains(c.stderr, <<"ValueError">>)
               /\ \A k \in 1..Len(c.trace) : c.trace[k].ev = "engine_from_config"

\* The validation as the code has it: the names rejected are those the
\* pattern does not match, and the pattern also matches a valid name
\* followed by one newline.
TenantValidationAsCoded ==
    \A c \in run.child :
        LET schema == run.env["SHED_CURRENT_SCHEMA"]
        IN  (schema # <<>> /\ re_match(schema) = {})
            => /\ c.returncode # 0
               /\ Contains(c.stderr, <<"ValueError">>)
               /\ \A k \in 1..Len(c.trace) : c.trace[k].ev = "engine_from_config"

\* what a run of the script did to a database or printed for one
Migrated(trace) ==
    \E i \in 1..Len(trace) :
        trace[i].ev \in {"connect", "execute", "commit", "emit", "generate"}

\* C21: when SHED_CURRENT_DSN is absent or empty, the bootstrap script raises
\* an error and no migration runs: no connection is opened and no statement
\* is executed, emitted or generated, in online and in offline mode.
C21_DsnRequired ==
    (op.name = "env_py" /\ get_dsn_from_env(op.args[1]) = {})
        => \A s \in op.ret : s.raised # "none" /\ ~Migrated(s.trace)

\* What the script does without the variable: it goes on with the URL of the
\* configuration file; a migration runs exactly when that URL names a
\* database the engine can use.
DsnFallbackAsCoded ==
    (op.name = "env_py" /\ get_dsn_from_env(op.args[1]) = {})
        => \A s \in op.ret :
              s = env_py([k \in DOMAIN op.args[1] |->
                             IF k = "SHED_CURRENT_DSN" THEN op.args[2]
                             ELSE op.args[1][k]]
                         @@ [k \in {"SHED_CURRENT_DSN"} |-> op.args[2]],
                         op.args[2], op.args[3], op.args[4], op.args[5], op.args[6])

\* C22: a command whose target argument fails resolution exits with code 2
\* and, from the start of the process to its exit, creates or modifies no
\* file, the settings file included, creates no temporary workspace and
\* launches no child process; exit code 0 is returned only on success and
\* exit code 1 only for a handled error, never for a rejected argument.
C22_ValidationBeforeEffects ==
    [][(steps' = steps + 1) =>
          /\ (run'.pc = "Rejected" \/ op'.raised = "BadParameter") =>
                /\ run'.pc = "Rejected" => run'.exit = {2}
                /\ \A o \in op'.ret : o.exit = 2
                /\ file' = file /\ fs' = fs
                /\ run'.tmp = <<>> /\ run'.launches = 0 /\ run'.child = {}
          /\ run'.exit = {0} => \E res \in run'.result : res.success
          /\ run'.exit = {1} => run'.pc \in {"Failed", "Raised"}
          /\ \A o \in op'.ret :
                op'.name = "clone" /\ op'.raised = "none" => o.exit \in {0, 1}]_vars

\* What holds of a rejected argument: the same, for a process that finds its
\* settings file; without one, main has written the file before the
\* argument is looked at.
ValidationWithSettingsFile ==
    [][(steps' = steps + 1 /\ (run'.pc = "Rejected" \/ op'.raised = "BadParameter")) =>
          /\ run'.pc = "Rejected" => run'.exit = {2}
          /\ \A o \in op'.ret : o.exit = 2
          /\ fs' = fs
          /\ run'.tmp = <<>> /\ run'.launches = 0 /\ run'.child = {}
          /\ file.exists => file' = file
          /\ ~file.exists => file' = from_file(SettingsPath, file).file /\ file'.exists]_vars

\* C23: init of a project on a fresh configuration (no project declared,
\* nothing on disk), without a connection, with the default development
\* database type and output directory: the settings file exists and holds
\* the project, whose module is <settings dir>/P/models.py and whose only
\* environment is named P and is file-based; the directories P/migrations
\* and P/migrations/versions exist and the versions directory is empty; the
\* result reports success and config_created.
C23_InitFresh ==
    [][(/\ op'.name = "init" /\ steps' = steps + 1
        /\ DOMAIN settings.projects = {} /\ DOMAIN file.data.projects = {}
        /\ fs = {}
        /\ op'.args[3] = {} /\ op'.args[5] = <<>> /\ op'.args[6] = "sqlite") =>
          LET P == op'.args[1]
              project_dir == PathJoin(RootDir, Path(FALSE, <<P>>))
              mig == PathJoin(project_dir, Path(FALSE, <<<<"migrations">>>>))
              ver == PathJoin(mig, Path(FALSE, <<<<"versions">>>>))
          IN  /\ op'.raised = "none"
              /\ op'.ret = {[success |-> TRUE, exit |-> 0, config_created |-> TRUE]}
              /\ file'.exists
              /\ DOMAIN file'.data.projects = {P}
              /\ from_file(SettingsPath, file').ret = {settings'}
              /\ DOMAIN settings'.projects = {P}
              /\ settings'.projects[P].module
                     = PathJoin(project_dir, Path(FALSE, <<<<"models.py">>>>))
              /\ DOMAIN settings'.projects[P].db = {P}
              /\ settings'.projects[P].db[P].connection.kind = "sqlite"
              /\ {mig, ver} \subseteq fs'
              /\ \A f \in fs' : IsRelativeTo(ver, f) => f = ver]_vars

\* a first init without a connection has succeeded and created the project
C23_Witness ==
    /\ op.name = "init" /\ op.args[3] = {} /\ op.args[6] = "sqlite"
    /\ op.ret = {[success |-> TRUE, exit |-> 0, config_created |-> TRUE]}
    /\ DOMAIN settings.projects = {ProjA}
    /\ DOMAIN settings.projects[ProjA].db = {ProjA}
    /\ file.exists /\ DOMAIN file.data.projects = {ProjA}
    /\ PathJoin(RootDir, Path(FALSE, <<ProjA, <<"migrations">>, <<"versions">>>>)) \in fs

\* C24: a dry-run migrate touches no database: the engine is run in
\* SQL-emission mode, the child opens no connection and executes nothing,
\* the target's data file is neither created nor written, and on success the
\* statements the child printed on stdout are the message of the result.
C24_DryRunTouchesNoDatabase ==
    [][(run.command = "migrate" /\ run.dry_run) =>
          /\ run.pc = "ChildProcessRunning" =>
                /\ run'.child # {}
                /\ \A c \in run'.child : \A i \in 1..Len(c.trace) :
                       c.trace[i].ev \in {"configure", "begin_transaction", "emit"}
                /\ fs' = fs
          /\ run.pc = "ChildExited" =>
                \A c \in run.child, res \in run'.result :
                    res.success => res.message = c.stdout]_vars

\* a dry run on the file database of a project with a revision has
\* succeeded: its message is the CREATE TABLE text and the data file does
\* not exist
C24_Witness ==
    /\ run.pc = "Succeeded" /\ run.command = "migrate" /\ run.dry_run
    /\ run.revisions # <<>>
    /\ \E t \in run.target, c \in run.child, res \in run.result :
          /\ t.db_config.connection.kind = "sqlite"
          /\ t.db_config.connection.db_path \notin fs
          /\ Contains(c.stdout, <<"CREATE TABLE">>)
          /\ res.message = c.stdout

\* the revision command has succeeded: the last revision file is the one
\* the engine has just created
RevisionCreated == run.pc = "Succeeded" /\ run.command = "revision"

\* the reported file is a revision file with the greatest modification time
ReportsNewest(res, t) ==
    LET files == revision_files(t.project_config, run.revisions)
    IN  /\ res.revision_file # {}
        /\ \A f \in res.revision_file :
               \E i \in 1..Len(files) :
                  /\ f = PathToStr(files[i])
                  /\ \A j \in 1..Len(files) : run.mtimes[j] <= run.mtimes[i]

\* the reported file is the file the run created
ReportsCreated(res, t) ==
    LET files == revision_files(t.project_config, run.revisions)
    IN  res.revision_file = {PathToStr(files[Len(files)])}

Whitespace == {" ", "\t", "\n", "\r", "\f"}

\* the connections of a Settings instance
ConnectionsOf(s) ==
    UNION {{s.projects[p].db[e].connection : e \in DOMAIN s.projects[p].db} :
              p \in DOMAIN s.projects}

\* C26: no accepted network connection has a database name that contains a
\* whitespace character (space, tab, newline, ...).
C26_DatabaseNameNoWhitespace ==
    op.name = "from_file" =>
        \A s \in op.ret :
            \A c \in {x \in ConnectionsOf(s) : x.kind = "postgres"} :
                \A i \in 1..Len(c.database) : c.database[i] \notin Whitespace

\* What the validator does: a name is refused exactly when it contains a
\* space character.
DatabaseNameAsCoded ==
    op.name = "from_file" =>
        /\ (op.raised = "none") <=> (\A i \in 1..Len(op.args[1]) : op.args[1][i] # " ")
        /\ \A s \in op.ret : \A c \in ConnectionsOf(s) :
               c.kind = "postgres" /\ c.database = op.args[1]

\* the project and environment keys of a projects map, as pairs
KeysOf(projects) ==
    {<<p>> : p \in DOMAIN projects}
    \cup UNION {{<<p, e>> : e \in DOMAIN projects[p].db} : p \in DOMAIN projects}

\* an operation of the core, on the settings the process has loaded
CoreStep == steps' = steps + 1 /\ op'.name \in {"save", "add_project", "init"}

\* C27: entries are only ever added: no operation of the core removes a
\* project key or an environment key, in memory or in the settings file,
\* and an init of a project that exists leaves the database configuration
\* of every environment the project had unchanged, except the environment
\* named by --env when a connection is supplied.
C27_EntriesOnlyAdded ==
    [][CoreStep =>
          /\ KeysOf(settings.projects) \subseteq KeysOf(settings'.projects)
          /\ KeysOf(file.data.projects) \subseteq KeysOf(file'.data.projects)
          /\ (op'.name = "init" /\ op'.args[1] \in DOMAIN settings.projects) =>
                \A e \in DOMAIN settings.projects[op'.args[1]].db :
                    \/ e = op'.args[2] /\ op'.args[3] # {}
                    \/ settings'.projects[op'.args[1]].db[e]
                          = settings.projects[op'.args[1]].db[e]]_vars

\* What holds: keys are never removed, and an init changes no environment
\* other than the one named by --env (with a connection) and the one named
\* like the project, which is set to the development database anew.
EntriesAsCoded ==
    [][CoreStep =>
          /\ KeysOf(settings.projects) \subseteq KeysOf(settings'.projects)
          /\ KeysOf(file.data.projects) \subseteq KeysOf(file'.data.projects)
          /\ (op'.name = "init" /\ op'.args[1] \in DOMAIN settings.projects) =>
                \A e \in DOMAIN settings.projects[op'.args[1]].db :
                    \/ e = op'.args[2] /\ op'.args[3] # {}
                    \/ e = op'.args[1]
                    \/ settings'.projects[op'.args[1]].db[e]
                          = settings.projects[op'.args[1]].db[e]]_vars

\* init has returned success = false because the migrations directory exists
\* and force is not set
InitRefused ==
    /\ op'.name = "init" /\ steps' = steps + 1
    /\ op'.raised = "none" /\ \A r \in op'.ret : ~r.success
    /\ ~op'.args[4]

\* init has left with typer.Exit(1): the output directory is not under the
\* settings directory
InitOutside == op'.name = "init" /\ steps' = steps + 1 /\ op'.raised = "Exit"

\* C28: a failed init has no persistent effect: when init returns
\* success = false because the migrations directory exists and force is not
\* set, or exits with code 1 because the output directory is not under the
\* settings directory, the settings file and the project and environment
\* maps in memory are as before the call.
C28_FailedInitNoEffect ==
    [][(InitRefused \/ InitOutside) =>
          /\ \A r \in op'.ret : r.exit = 1
          /\ file' = file
          /\ settings'.projects = settings.projects]_vars

\* What holds: the exit for an output directory outside the settings
\* directory comes before any change; the refusal for an existing migrations
\* directory comes after the settings were changed and saved, and the file
\* then holds the changed settings.
FailedInitAsCoded ==
    [][/\ InitOutside =>
             file' = file /\ settings' = settings /\ fs' = fs
       /\ InitRefused =>
             /\ fs' = fs
             /\ from_file(SettingsPath, file').ret = {settings'}
             /\ op'.args[1] \in DOMAIN settings'.projects
             /\ op'.args[1] \in DOMAIN settings'.projects[op'.args[1]].db
             /\ op'.args[3] # {} =>
                   op'.args[2] \in DOMAIN settings'.projects[op'.args[1]].db]_vars

\* the connection of --connection as cli.init hands it on: its file path
\* made absolute against the settings directory
Supplied(c) ==
    [c EXCEPT !.connection = ConnConvertPaths(c.connection, RootDir, "abs")]

\* init has succeeded with a connection
InitWithConnection ==
    /\ op'.name = "init" /\ steps' = steps + 1
    /\ op'.raised = "none" /\ \A r \in op'.ret : r.success
    /\ op'.args[3] # {}

\* C29: after a successful init(P, env = E, connection = C), for every
\* environment name E, E = P included, the environment E of the project
\* holds exactly C with its file path made absolute, and that is what the
\* settings file holds and the next load returns.
C29_InitWithConnection ==
    [][InitWithConnection =>
          \A c \in op'.args[3] :
              /\ settings'.projects[op'.args[1]].db[op'.args[2]] = Supplied(c)
              /\ \A s \in from_file(SettingsPath, file').ret :
                     s.projects[op'.args[1]].db[op'.args[2]] = Supplied(c)
              /\ from_file(SettingsPath, file').ret # {}]_vars

\* What holds: the same for every environment name other than the project
\* name; the environment named like the project holds the development
\* database whatever connection was supplied for it.
InitWithConnectionAsCoded ==
    [][InitWithConnection =>
          \A c \in op'.args[3] :
              /\ from_file(SettingsPath, file').ret = {settings'}
              /\ op'.args[2] # op'.args[1] =>
                    settings'.projects[op'.args[1]].db[op'.args[2]] = Supplied(c)
              /\ settings'.projects[op'.args[1]].db[op'.args[1]]
                    = DevDatabaseConfig(RootDir, op'.args[1], op'.args[6])]_vars

\* the revision command has started on a resolved target whose project has
\* no migrations directory
RevisionWithoutMigrations ==
    /\ steps' = steps + 1 /\ op'.name = "revision"
    /\ run'.target # {}
    /\ \A t \in run'.target : migrations_dir(t.project_config) \notin fs

\* C30: create_revision tests its precondition before any side effect: when
\* the migrations directory does not exist it returns success = false with
\* a message that tells the user to run init, and no temporary workspace is
\* created, no child process is launched and no formatter is run.
C30_RevisionPrecondition ==
    [][RevisionWithoutMigrations =>
          /\ run'.pc = "Failed" /\ run'.exit = {1}
          /\ run'.result # {}
          /\ \A res \in run'.result :
                /\ ~res.success
                /\ Contains(res.message, <<"shed", " init' first.">>)
                /\ res.revision_file = {} /\ ~res.formatted
          /\ run'.tmp = <<>> /\ fs' = fs /\ file' = file
          /\ run'.launches = 0 /\ run'.child = {}
          /\ run'.formatter_runs = 0]_vars

\* a revision command has been refused on an empty file system
C30_Witness ==
    /\ run.pc = "Failed" /\ run.command = "revision" /\ run.use_ruff
    /\ run.target # {} /\ run.child = {} /\ run.tmp = <<>>
    /\ fs = {}
    /\ \E res \in run.result : Contains(res.message, <<"Migrations directory not found at ">>)

====
